---- MODULE Spec2Model ----
(***************************************************************************)
(* A model of the p5-server analysis engine: the script parser's wrapper   *)
(* (parseOrReadJs / checkedParseScript), the sketch classifiers            *)
(* (isSketchJs, isSketchHtml), the directory scanner (findProjects), the   *)
(* analyzers (findFreeVariables, findP5MemberReferences), Project.name,    *)
(* the /*.js route of the server and the port scan of startServer.         *)
(*                                                                         *)
(* Text (file names, paths, script source) is a sequence of one-character  *)
(* strings, so that endsWith, basename, the lexer and the regular          *)
(* expressions are computed character by character as the code does.       *)
(***************************************************************************)
EXTENDS Integers, Sequences, FiniteSets, TLC

VARIABLES
  pc,        \* "start" before the call, "done" after it
  op,        \* the function that was called
  file,      \* the file a classifier or parser is applied to
  listing,   \* the entries of directory Dir, in the order readdirSync lists them
  program,   \* the Program given to findFreeVariables
  ret,       \* what the call returned or threw
  project,   \* the Project whose name is read
  ports,     \* what listening on each port does: the environment of startServer
  server,    \* startServer's locals: the loop counter, the ports tried, the server
  request,   \* the request a route of the server handles
  mounts,    \* the mount points of a Server and the locals of normalizeMountPoints
  instance,  \* a Server instance, its calls in flight and the http servers it started
  disk,      \* what is at the path Project.generate writes to
  check      \* the libraries, their responses and the progress of checkLibraries

vars ==
  <<pc, op, file, listing, program, ret, project, ports, server, request, mounts,
    instance, disk, check>>

(***************************************************************************)
(* Bounds of the model.                                                    *)
(***************************************************************************)
\* the number of pieces a script text is assembled from
MaxPieces == 4

\* the number of entries of a directory
MaxEntries == 3

\* the number of script elements of a markup file
MaxScripts == 2

\* the number of statements of the body of the analysed function
MaxBody == 2

\* the number of parameters of the analysed function
MaxParams == 1

(***************************************************************************)
(* Text.                                                                   *)
(***************************************************************************)
\* null / undefined / '' : every falsy string value of the code
Null == <<>>

Str_function == <<"f","u","n","c","t","i","o","n">>
Str_setup == <<"s","e","t","u","p">>
Str_draw == <<"d","r","a","w">>
Str_js == <<".","j","s">>
Str_htm == <<".","h","t","m">>
Str_html == <<".","h","t","m","l">>

\* \w of a JavaScript regular expression; also the identifier characters of the lexer
WordChars ==
  {"a","b","c","d","e","f","g","h","i","j","k","l","m","n","o","p","q","r","s",
   "t","u","v","w","x","y","z","A","B","C","D","E","F","G","H","I","J","K","L",
   "M","N","O","P","Q","R","S","T","U","V","W","X","Y","Z","0","1","2","3","4",
   "5","6","7","8","9","_"}

\* \s of a JavaScript regular expression; also the lexer's white space
SpaceChars == {" ", "\n", "\t"}

IsWordChar(c) == c \in WordChars

IsSpace(c) == c \in SpaceChars

\* String.prototype.endsWith
EndsWith(s, suffix) ==
  /\ Len(s) >= Len(suffix)
  /\ SubSeq(s, Len(s) - Len(suffix) + 1, Len(s)) = suffix

\* whether s has t at (1-based) position i
HasAt(s, i, t) ==
  /\ i >= 1
  /\ i + Len(t) - 1 <= Len(s)
  /\ SubSeq(s, i, i + Len(t) - 1) = t

\* \b of a JavaScript regular expression, between positions i-1 and i of s
WordBoundary(s, i) ==
  LET before == i > 1 /\ i - 1 <= Len(s) /\ IsWordChar(s[i - 1])
      after == i >= 1 /\ i <= Len(s) /\ IsWordChar(s[i])
  IN before # after

\* path.join(dir, file) for a relative file name without . or .. segments
PathJoin(dir, base) == dir \o <<"/">> \o base

\* path.basename
RECURSIVE Basename(_)
Basename(p) ==
  IF \E i \in 1..Len(p) : p[i] = "/"
  THEN Basename(Tail(p))
  ELSE p

(***************************************************************************)
(* esprima's parseScript, for the fragment of JavaScript the script texts  *)
(* of this model are written in: identifiers, the keyword function, the    *)
(* punctuators ( ) { } ; and white space.  In every text of the model a    *)
(* "(" is directly followed by ")", so the statements of the fragment are  *)
(* blocks, empty statements, function declarations without parameters and  *)
(* expression statements that are an identifier called zero or more times, *)
(* ended by automatic semicolon insertion where the language allows it.    *)
(***************************************************************************)
\* the end of the run of word characters that starts at i
RECURSIVE WordEnd(_, _)
WordEnd(code, i) ==
  IF i < Len(code) /\ IsWordChar(code[i + 1]) THEN WordEnd(code, i + 1) ELSE i

\* the scanner: the tokens of code from position i on, closed by an EOF token;
\* line is the line of position i, nl whether a line break precedes position i
\* since the last token
RECURSIVE Tokenize(_, _, _, _)
Tokenize(code, i, line, nl) ==
  IF i > Len(code)
  THEN <<[type |-> "EOF", value |-> Null, line |-> line, nl |-> nl]>>
  ELSE IF code[i] = "\n" THEN Tokenize(code, i + 1, line + 1, TRUE)
  ELSE IF IsSpace(code[i]) THEN Tokenize(code, i + 1, line, nl)
  ELSE IF IsWordChar(code[i])
  THEN LET j == WordEnd(code, i)
           w == SubSeq(code, i, j)
       IN <<[type |-> IF w = Str_function THEN "Keyword" ELSE "Identifier",
             value |-> w, line |-> line, nl |-> nl]>>
          \o Tokenize(code, j + 1, line, FALSE)
  ELSE <<[type |-> "Punctuator", value |-> <<code[i]>>, line |-> line, nl |-> nl]>>
       \o Tokenize(code, i + 1, line, FALSE)

IsPunct(tok, c) == tok.type = "Punctuator" /\ tok.value = <<c>>

\* the error esprima throws at token i (its message is "Line n: <description>")
UnexpectedToken(toks, i) ==
  [ok |-> FALSE,
   message |-> [line |-> toks[i].line,
                description |-> CASE toks[i].type = "EOF" -> "Unexpected end of input"
                                  [] toks[i].type = "Identifier" -> "Unexpected identifier"
                                  [] OTHER -> "Unexpected token",
                token |-> toks[i].value]]

Parsed(node, pos) == [ok |-> TRUE, node |-> node, pos |-> pos]

\* the calls that follow a callee: callee() () ...
RECURSIVE ParseCallTail(_, _, _)
ParseCallTail(toks, i, callee) ==
  IF ~IsPunct(toks[i], "(") THEN Parsed(callee, i)
  ELSE IF ~IsPunct(toks[i + 1], ")") THEN UnexpectedToken(toks, i + 1)
  ELSE ParseCallTail(toks, i + 2,
         [type |-> "CallExpression", callee |-> callee, arguments |-> <<>>])

RECURSIVE ParseStatement(_, _)
RECURSIVE ParseStatementList(_, _, _)
\* the statement list after its statement r
ContinueStatementList(toks, acc, r) ==
  IF r.ok THEN ParseStatementList(toks, r.pos, Append(acc, r.node)) ELSE r

\* statements up to the closing "}" or the end of the input, neither consumed
ParseStatementList(toks, i, acc) ==
  IF toks[i].type = "EOF" \/ IsPunct(toks[i], "}") THEN Parsed(acc, i)
  ELSE ContinueStatementList(toks, acc, ParseStatement(toks, i))

\* the "}" that closes the statements r of a block
CloseBlock(toks, r) ==
  IF ~r.ok THEN r
  ELSE IF ~IsPunct(toks[r.pos], "}") THEN UnexpectedToken(toks, r.pos)
  ELSE Parsed(r.node, r.pos + 1)

\* "{" statements "}" with the "{" at token i
ParseBlockBody(toks, i) == CloseBlock(toks, ParseStatementList(toks, i + 1, <<>>))

\* the declaration of function name with the parsed body b
FunctionDeclarationNode(name, b) ==
  IF ~b.ok THEN b
  ELSE Parsed([type |-> "FunctionDeclaration",
               id |-> [type |-> "Identifier", name |-> name],
               params |-> <<>>,
               body |-> [type |-> "BlockStatement", body |-> b.node]],
              b.pos)

\* function id ( ) { statements } with the keyword at token i
ParseFunctionDeclaration(toks, i) ==
  IF toks[i + 1].type # "Identifier" THEN UnexpectedToken(toks, i + 1)
  ELSE IF ~IsPunct(toks[i + 2], "(") THEN UnexpectedToken(toks, i + 2)
  ELSE IF ~IsPunct(toks[i + 3], ")") THEN UnexpectedToken(toks, i + 3)
  ELSE IF ~IsPunct(toks[i + 4], "{") THEN UnexpectedToken(toks, i + 4)
  ELSE FunctionDeclarationNode(toks[i + 1].value, ParseBlockBody(toks, i + 4))

\* the end of the expression statement whose expression is e: a semicolon,
\* or automatic semicolon insertion (consumeSemicolon)
ConsumeSemicolon(toks, e) ==
  IF ~e.ok THEN e
  ELSE IF IsPunct(toks[e.pos], ";")
  THEN Parsed([type |-> "ExpressionStatement", expression |-> e.node], e.pos + 1)
  ELSE IF toks[e.pos].type = "EOF" \/ IsPunct(toks[e.pos], "}") \/ toks[e.pos].nl
  THEN Parsed([type |-> "ExpressionStatement", expression |-> e.node], e.pos)
  ELSE UnexpectedToken(toks, e.pos)

\* expression ; with the expression starting at the identifier at token i
ParseExpressionStatement(toks, i) ==
  ConsumeSemicolon(toks,
    ParseCallTail(toks, i + 1, [type |-> "Identifier", name |-> toks[i].value]))

\* the block statement with the parsed body b
BlockNode(b) ==
  IF b.ok THEN Parsed([type |-> "BlockStatement", body |-> b.node], b.pos) ELSE b

ParseStatement(toks, i) ==
  IF IsPunct(toks[i], "{") THEN BlockNode(ParseBlockBody(toks, i))
  ELSE IF IsPunct(toks[i], ";") THEN Parsed([type |-> "EmptyStatement"], i + 1)
  ELSE IF toks[i].type = "Keyword" THEN ParseFunctionDeclaration(toks, i)
  ELSE IF toks[i].type = "Identifier" THEN ParseExpressionStatement(toks, i)
  ELSE UnexpectedToken(toks, i)

\* the Program whose statements are r, which must end at the end of the input
ProgramNode(toks, r) ==
  IF ~r.ok THEN r
  ELSE IF toks[r.pos].type # "EOF" THEN UnexpectedToken(toks, r.pos)
  ELSE [ok |-> TRUE, node |-> [type |-> "Program", body |-> r.node]]

ParseProgram(toks) == ProgramNode(toks, ParseStatementList(toks, 1, <<>>))

\* parseScript(code): the Program, or the error thrown
ParseScript(code) == ParseProgram(Tokenize(code, 1, 1, FALSE))

(***************************************************************************)
(* Values returned and errors thrown.                                      *)
(***************************************************************************)
Return(v) == [kind |-> "return", value |-> v]

Throw(e) == [kind |-> "throw", error |-> e]

\* the error fs.statSync and fs.readFileSync throw (ENOENT, EISDIR)
SystemError(errno) == [name |-> "SystemError", errno |-> errno]

\* new JavascriptSyntaxError(msg, fileName, code)
JavascriptSyntaxError(msg, fileName, code) ==
  [name |-> "JavascriptSyntaxError", message |-> msg, fileName |-> fileName,
   code |-> code]

\* fs.readFileSync(f.path, 'utf-8')
ReadFileSync(f) ==
  IF ~f.exists THEN Throw(SystemError("ENOENT"))
  ELSE IF f.isDir THEN Throw(SystemError("EISDIR"))
  ELSE Return(f.code)

\* try { return parseScript(code) } catch (e) { throw new JavascriptSyntaxError(...) }
\* with r the outcome of parseScript(code)
ReturnOrWrap(filePath, code, r) ==
  IF r.ok THEN Return(r.node)
  ELSE Throw(JavascriptSyntaxError(r.message, filePath, code))

\* the body of parseOrReadJs and of checkedParseScript after the read
ParseRead(filePath, code) ==
  IF code.kind = "throw" THEN code
  ELSE ReturnOrWrap(filePath, code.value, ParseScript(code.value))

\* parseOrReadJs(filePath) of the project model
ParseOrReadJs(f) == ParseRead(f.path, ReadFileSync(f))

\* checkedParseScript reporting the base name in place of the path
CheckedParseScript_Basename(f) == ParseRead(Basename(f.path), ReadFileSync(f))

\* checkedParseScript(filePath) of the program model
CheckedParseScript(f) == ParseRead(f.path, ReadFileSync(f))

\* the end of the run of white space that starts at i (i itself if there is none)
RECURSIVE SkipSpaces(_, _)
SkipSpaces(s, i) ==
  IF i <= Len(s) /\ IsSpace(s[i]) THEN SkipSpaces(s, i + 1) ELSE i

\* /function\s+(setup|draw)/ : the pattern without its closing \b
MatchSketchFunctionAt_NoBoundary(s, i) ==
  /\ HasAt(s, i, Str_function)
  /\ LET j == SkipSpaces(s, i + Len(Str_function))
     IN /\ j > i + Len(Str_function)
        /\ (HasAt(s, j, Str_setup) \/ HasAt(s, j, Str_draw))

\* whether /function\s+(setup|draw)\b/ matches s at position i
MatchSketchFunctionAt(s, i) ==
  /\ HasAt(s, i, Str_function)
  /\ LET j == SkipSpaces(s, i + Len(Str_function))
     IN /\ j > i + Len(Str_function)
        /\ \/ HasAt(s, j, Str_setup) /\ WordBoundary(s, j + Len(Str_setup))
           \/ HasAt(s, j, Str_draw) /\ WordBoundary(s, j + Len(Str_draw))

\* s.search(/function\s+(setup|draw)\b/): the 0-based index of the leftmost
\* match from position i on, or -1
RECURSIVE SearchSketchFunction(_, _)
SearchSketchFunction(s, i) ==
  IF i > Len(s) THEN -1
  ELSE IF MatchSketchFunctionAt(s, i) THEN i - 1
  ELSE SearchSketchFunction(s, i + 1)

\* the names of the function declarations among the statements body and of
\* those directly inside them
GlobalFunctionNames_Nested(body) ==
  LET decls(b) == {b[k] : k \in {k \in 1..Len(b) : b[k].type = "FunctionDeclaration"}}
  IN {d.id.name : d \in decls(body)}
     \cup UNION {{e.id.name : e \in decls(d.body.body)} : d \in decls(body)}

\* the names of the function declarations among the statements body
GlobalFunctionNames(body) ==
  {body[i].id.name : i \in {k \in 1..Len(body) : body[k].type = "FunctionDeclaration"}}

\* the try block of isSketchJs and its catch, with p the outcome of parseOrReadJs
ClassifyScript(p) ==
  IF p.kind = "return"
  THEN LET globalFunctionNames == GlobalFunctionNames(p.value.body)
       IN Return(Str_setup \in globalFunctionNames \/ Str_draw \in globalFunctionNames)
  ELSE IF p.error.name = "JavascriptSyntaxError"
  THEN Return(SearchSketchFunction(p.error.code, 1) >= 0)
  ELSE p

\* isSketchJs(filePath)
IsSketchJs(f) ==
  IF ~f.exists THEN Throw(SystemError("ENOENT"))
  ELSE IF f.isDir THEN Return(FALSE)
  ELSE IF ~EndsWith(f.path, Str_js) THEN Return(FALSE)
  ELSE ClassifyScript(ParseOrReadJs(f))

(***************************************************************************)
(* The script texts and files of the parse specification.                  *)
(***************************************************************************)
\* the directory every file of the model is in
Dir == <<"d">>

Name_sketch_js == <<"s","k","e","t","c","h",".","j","s">>
Name_t_js == <<"t",".","j","s">>
Name_r_txt == <<"r",".","t","x","t">>

Piece_fn_s_open == Str_function \o <<" ","s","(",")","{">>
Piece_fn_draw == Str_function \o <<" ">> \o Str_draw \o <<"(",")","{","}">>

Pieces ==
  {Str_function, <<" ">>, <<"\n">>, Str_setup, Str_draw, <<"s">>,
   <<"(",")","{","}">>, <<"(",")">>, <<";">>, <<"}">>,
   Piece_fn_s_open, Piece_fn_draw}

RECURSIVE Flatten(_)
Flatten(ps) == IF ps = <<>> THEN <<>> ELSE Head(ps) \o Flatten(Tail(ps))

\* every text assembled from at most MaxPieces pieces
Texts == {Flatten(ps) : ps \in UNION {[1..n -> Pieces] : n \in 0..MaxPieces}}

Text_setup == Str_function \o <<" ">> \o Str_setup \o <<"(",")","{","}">>

JsFile(name, code) ==
  [path |-> PathJoin(Dir, name), exists |-> TRUE, isDir |-> FALSE, code |-> code]

Files ==
  {JsFile(Name_t_js, t) : t \in Texts}
  \cup {JsFile(Name_r_txt, Text_setup),
        [path |-> PathJoin(Dir, Name_t_js), exists |-> TRUE, isDir |-> TRUE, code |-> Null],
        [path |-> PathJoin(Dir, Name_t_js), exists |-> FALSE, isDir |-> FALSE, code |-> Null]}

(***************************************************************************)
(* The values the variables of the other specifications rest at.           *)
(***************************************************************************)
NoFile == [path |-> Null, exists |-> FALSE, isDir |-> FALSE, code |-> Null]

NoResult == [kind |-> "none"]

NoProgram == [type |-> "Program", body |-> <<>>]

IdleScan == listing = <<>>

IdleFree == program = NoProgram

NoProject == [dirPath |-> Null, indexPath |-> Null, sketchPath |-> Null, title |-> Null]

\* server is null where listening is 0
NoServer == [port |-> 0, scanPorts |-> FALSE, p |-> 0, tried |-> <<>>, listening |-> 0]

NoRequest == [acceptsHtml |-> FALSE, fmtView |-> FALSE]

NoMounts ==
  [list |-> <<>>, i |-> 0, base |-> Null, ix |-> 0, yielded |-> <<>>, filePath |-> Null]

\* server 0 is null; stopped: a stop() has completed and no start() has begun since
NoInstance ==
  [server |-> 0, url |-> Null, calls |-> <<>>, listening |-> {}, stopped |-> FALSE]

\* kind and entries: what is at the path now; was and had: what was there
\* before generate; written: the files generate wrote
NoDisk ==
  [kind |-> "absent", entries |-> {}, was |-> "absent", had |-> {}, force |-> FALSE,
   written |-> {}]

\* pending: the fetches in flight; fetched: the fetches that settled, by phase;
\* started: the phases begun; exitCode 0: process.exitCode is not set
NoCheck ==
  [libraries |-> <<>>, pending |-> {}, fetched |-> {}, started |-> <<>>, exitCode |-> 0]

IdleRest == mounts = NoMounts /\ instance = NoInstance /\ disk = NoDisk /\ check = NoCheck

IdleServer ==
  /\ project = NoProject /\ ports = <<>> /\ server = NoServer /\ request = NoRequest
  /\ IdleRest

(***************************************************************************)
(* The parse specification: one call of parseOrReadJs, checkedParseScript  *)
(* or isSketchJs on one file.                                              *)
(***************************************************************************)
InitParse ==
  /\ pc = "start"
  /\ IdleServer
  /\ op = "none"
  /\ file \in Files
  /\ ret = NoResult
  /\ IdleScan
  /\ IdleFree

CallParseOrReadJs ==
  /\ pc = "start"
  /\ pc' = "done"
  /\ op' = "parseOrReadJs"
  /\ ret' = ParseOrReadJs(file)
  /\ UNCHANGED <<file, listing, program, project, ports, server, request, mounts, instance, disk, check>>

CallCheckedParseScript ==
  /\ pc = "start"
  /\ pc' = "done"
  /\ op' = "checkedParseScript"
  /\ ret' = CheckedParseScript(file)
  /\ UNCHANGED <<file, listing, program, project, ports, server, request, mounts, instance, disk, check>>

CallIsSketchJs ==
  /\ pc = "start"
  /\ pc' = "done"
  /\ op' = "isSketchJs"
  /\ ret' = IsSketchJs(file)
  /\ UNCHANGED <<file, listing, program, project, ports, server, request, mounts, instance, disk, check>>

NextParse == CallParseOrReadJs \/ CallCheckedParseScript \/ CallIsSketchJs

SpecParse == InitParse /\ [][NextParse]_vars

(***************************************************************************)
(* Claims about classification of scripts and about parsing.               *)
(***************************************************************************)
\* the file is a regular file whose path ends in .js
IsScriptFile(f) == f.exists /\ ~f.isDir /\ EndsWith(f.path, Str_js)

SketchNames == {Str_setup, Str_draw}

\* some statement of body declares a function named setup or draw
DeclaresSketchFunction(body) ==
  \E i \in 1..Len(body) :
    body[i].type = "FunctionDeclaration" /\ body[i].id.name \in SketchNames

\* C3: for a non-directory path ending in .js whose text parses, isSketchJs
\* returns true exactly when a top-level function declaration of the program
\* is named setup or draw; a declaration nested in another function does not count.
C3_TopLevelDeclarationDecides ==
  (pc = "done" /\ op = "isSketchJs" /\ IsScriptFile(file) /\ ParseScript(file.code).ok)
    => ret = Return(DeclaresSketchFunction(ParseScript(file.code).node.body))

\* isSketchJs answered false for a script that parses and declares draw or
\* setup only inside another function
C3_Witness_NestedOnly ==
  /\ pc = "done" /\ op = "isSketchJs" /\ IsScriptFile(file)
  /\ ParseScript(file.code).ok
  /\ ret = Return(FALSE)
  /\ LET body == ParseScript(file.code).node.body
     IN \E i \in 1..Len(body) :
          /\ body[i].type = "FunctionDeclaration"
          /\ DeclaresSketchFunction(body[i].body.body)

\* the text has "function", then at least one white-space character, then
\* setup or draw followed by no word character
ContainsSketchFunctionText(s) ==
  \E i \in 1..Len(s) : \E n \in SketchNames : \E j \in (i + 9)..Len(s) :
    /\ HasAt(s, i, Str_function)
    /\ \A k \in (i + 8)..(j - 1) : s[k] \in {" ", "\n", "\t"}
    /\ HasAt(s, j, n)
    /\ (j + Len(n) > Len(s) \/ s[j + Len(n)] \notin WordChars)

\* C4: for a .js file whose text fails to parse, isSketchJs does not raise the
\* syntax error: it returns a boolean, true exactly when the raw text contains
\* function, white space, then setup or draw as a whole word.
C4_FallbackOnSyntaxError ==
  (pc = "done" /\ op = "isSketchJs" /\ IsScriptFile(file) /\ ~ParseScript(file.code).ok)
    => ret = Return(ContainsSketchFunctionText(file.code))

\* isSketchJs answered true for a script that does not parse
C4_Witness_UnparsableSketch ==
  /\ pc = "done" /\ op = "isSketchJs" /\ IsScriptFile(file)
  /\ ~ParseScript(file.code).ok
  /\ ret = Return(TRUE)

\* the tokens a syntax tree stands for, without the semicolons
RECURSIVE Unparse(_)
RECURSIVE UnparseList(_)
UnparseList(nodes) ==
  IF nodes = <<>> THEN <<>> ELSE Unparse(Head(nodes)) \o UnparseList(Tail(nodes))

Unparse(node) ==
  CASE node.type = "Program" -> UnparseList(node.body)
    [] node.type = "FunctionDeclaration" ->
         <<Str_function, node.id.name, <<"(">>, <<")">>>> \o Unparse(node.body)
    [] node.type = "BlockStatement" -> <<<<"{">>>> \o UnparseList(node.body) \o <<<<"}">>>>
    [] node.type = "EmptyStatement" -> <<>>
    [] node.type = "ExpressionStatement" -> Unparse(node.expression)
    [] node.type = "CallExpression" -> Unparse(node.callee) \o <<<<"(">>, <<")">>>>
    [] node.type = "Identifier" -> <<node.name>>

\* the tokens of a text, without the semicolons
SignificantTokens(code) ==
  LET toks == Tokenize(code, 1, 1, FALSE)
      keep == SelectSeq(toks, LAMBDA t : t.type # "EOF" /\ ~IsPunct(t, ";"))
  IN [i \in 1..Len(keep) |-> keep[i].value]

\* C5: parsing a file that was read either returns the complete syntax tree
\* (every token of the text is in it) or raises a JavascriptSyntaxError with
\* the parser's message, the path that was given and the unmodified text.
C5_TreeOrSyntaxError ==
  (pc = "done" /\ op \in {"parseOrReadJs", "checkedParseScript"}
     /\ file.exists /\ ~file.isDir)
    => \/ /\ ret.kind = "return"
          /\ ret.value.type = "Program"
          /\ Unparse(ret.value) = SignificantTokens(file.code)
       \/ /\ ret.kind = "throw"
          /\ ret.error.name = "JavascriptSyntaxError"
          /\ ~ParseScript(file.code).ok
          /\ ret.error.message = ParseScript(file.code).message
          /\ ret.error.fileName = file.path
          /\ ret.error.code = file.code

\* checkedParseScript raised a JavascriptSyntaxError for a text with a
\* function declaration that is not closed
C5_Witness_SyntaxError ==
  /\ pc = "done" /\ op = "checkedParseScript"
  /\ ret.kind = "throw"
  /\ ret.error.name = "JavascriptSyntaxError"
  /\ ret.error.message.description = "Unexpected end of input"
  /\ Len(file.code) > 0

(***************************************************************************)
(* The project model: isSketchHtml, Project, findProjects.                 *)
(*                                                                         *)
(* A markup file is given by the script elements node-html-parser finds in *)
(* it, in document order; a script element is [hasSrc, src], hasSrc FALSE  *)
(* when the element has no src attribute (attributes.src is undefined).    *)
(***************************************************************************)
Str_p5 == <<"p","5">>
Str_min_js == <<".","m","i","n",".","j","s">>

\* whether /\bp5(\.min)?\.js$/ matches s at position i
MatchP5ScriptAt(s, i) ==
  /\ WordBoundary(s, i)
  /\ HasAt(s, i, Str_p5)
  /\ SubSeq(s, i + Len(Str_p5), Len(s)) \in {Str_js, Str_min_js}

\* src.search(/\bp5(\.min)?\.js$/): the 0-based index of the leftmost match
\* from position i on, or -1
RECURSIVE SearchP5Script(_, _)
SearchP5Script(s, i) ==
  IF i > Len(s) THEN -1
  ELSE IF MatchP5ScriptAt(s, i) THEN i - 1
  ELSE SearchP5Script(s, i + 1)

\* a number used as a condition
Truthy(n) == n # 0

TypeError == [name |-> "TypeError"]

\* scriptSrcs.some(src => src.search(...)) from element i on: the callback's
\* number is the condition, and it throws where src is undefined
RECURSIVE SomeScriptSrc(_, _)
SomeScriptSrc(scripts, i) ==
  IF i > Len(scripts) THEN Return(FALSE)
  ELSE IF ~scripts[i].hasSrc THEN Throw(TypeError)
  ELSE IF Truthy(SearchP5Script(scripts[i].src, 1)) THEN Return(TRUE)
  ELSE SomeScriptSrc(scripts, i + 1)

\* isSketchHtml(filePath)
IsSketchHtml(f) ==
  IF ~f.exists THEN Throw(SystemError("ENOENT"))
  ELSE IF f.isDir THEN Return(FALSE)
  ELSE IF ~EndsWith(f.path, Str_htm) /\ ~EndsWith(f.path, Str_html) THEN Return(FALSE)
  ELSE SomeScriptSrc(f.scripts, 1)

\* new Project(dirPath, indexPath, sketchPath)
Project(dirPath, indexPath, sketchPath) ==
  [dirPath |-> dirPath, indexPath |-> indexPath, sketchPath |-> sketchPath,
   title |-> Null]

\* the default value of the constructor's sketchPath parameter
DefaultSketchPath == Name_sketch_js

\* Project.files
ProjectFiles(p) ==
  (IF p.indexPath # Null THEN <<Basename(p.indexPath)>> ELSE <<>>)
  \o (IF p.sketchPath # Null THEN <<Basename(p.sketchPath)>> ELSE <<>>)

Range(seq) == {seq[i] : i \in 1..Len(seq)}

\* removeProjectFiles() keeping the files that are no project's index file
RemoveProjectFiles_IndexOnly(files, projects) ==
  SelectSeq(files, LAMBDA f :
    ~\E i \in 1..Len(projects) : f = projects[i].indexPath)

\* removeProjectFiles()
RemoveProjectFiles(files, projects) ==
  SelectSeq(files, LAMBDA f :
    ~\E i \in 1..Len(projects) : f \in Range(ProjectFiles(projects[i])))

\* the file of directory Dir an entry of the listing stands for
EntryFile(e) ==
  [path |-> PathJoin(Dir, e.name), exists |-> TRUE, isDir |-> e.isDir,
   code |-> e.code, scripts |-> e.scripts]

\* the entry of the listing named name
EntryNamed(entries, name) ==
  entries[CHOOSE i \in 1..Len(entries) : entries[i].name = name]

\* glob.sync('*.@(html|html)', { cwd: dir }): the names that do not start with
\* a dot and end in .html, here in the order of the listing
GlobHtml(entries) ==
  SelectSeq([i \in 1..Len(entries) |-> entries[i].name], LAMBDA n :
    /\ Len(n) > Len(Str_html)
    /\ n[1] # "."
    /\ EndsWith(n, Str_html))

RECURSIVE MarkupProjects(_, _, _, _)
\* the body of the first loop for the i-th markup file, r the outcome of isSketchHtml
AddMarkupProject(entries, htmls, i, projects, r) ==
  IF r.kind = "throw" THEN r
  ELSE MarkupProjects(entries, htmls, i + 1,
         IF r.value
         THEN Append(projects, Project(Dir, htmls[i], DefaultSketchPath))
         ELSE projects)

\* the first loop of findProjects from the i-th markup file on
MarkupProjects(entries, htmls, i, projects) ==
  IF i > Len(htmls) THEN Return(projects)
  ELSE AddMarkupProject(entries, htmls, i, projects,
         IsSketchHtml(EntryFile(EntryNamed(entries, htmls[i]))))

RECURSIVE ScriptProjects(_, _, _, _)
\* the body of the second loop putting the script project in front of the list
AddScriptProject_Prepend(entries, files, i, projects, r) ==
  IF r.kind = "throw" THEN r
  ELSE ScriptProjects(entries, files, i + 1,
         IF r.value THEN <<Project(Dir, Null, files[i])>> \o projects ELSE projects)

\* the body of the second loop for the i-th remaining file, r the outcome of isSketchJs
AddScriptProject(entries, files, i, projects, r) ==
  IF r.kind = "throw" THEN r
  ELSE ScriptProjects(entries, files, i + 1,
         IF r.value THEN Append(projects, Project(Dir, Null, files[i])) ELSE projects)

\* the second loop of findProjects from the i-th remaining file on
ScriptProjects(entries, files, i, projects) ==
  IF i > Len(files) THEN Return(projects)
  ELSE AddScriptProject(entries, files, i, projects,
         IsSketchJs(EntryFile(EntryNamed(entries, files[i]))))

\* fs.readdirSync(dir)
ReaddirSync(entries) == [i \in 1..Len(entries) |-> entries[i].name]

\* return { files: removeProjectFiles(), projects }, second the outcome of the
\* second loop
ReturnProjects(files, second) ==
  IF second.kind = "throw" THEN second
  ELSE Return([files |-> RemoveProjectFiles(files, second.value),
               projects |-> second.value])

\* findProjects after its first loop, first the outcome of that loop
ScanScripts(entries, files, first) ==
  IF first.kind = "throw" THEN first
  ELSE ReturnProjects(files,
         ScriptProjects(entries, RemoveProjectFiles(files, first.value), 1,
                        first.value))

\* findProjects(dir) for the directory whose listing is entries
FindProjects(entries) ==
  ScanScripts(entries, ReaddirSync(entries),
              MarkupProjects(entries, GlobHtml(entries), 1, <<>>))

(***************************************************************************)
(* The directories of the scan specification.                              *)
(***************************************************************************)
Name_index_html == <<"i","n","d","e","x",".","h","t","m","l">>
Name_a_html == <<"a",".","h","t","m","l">>
Name_b_htm == <<"b",".","h","t","m">>

Src_p5_js == <<"p","5",".","j","s">>
Src_lib_p5_min_js == <<"l","i","b","/","p","5",".","m","i","n",".","j","s">>
Src_jquery_js == <<"j","q","u","e","r","y",".","j","s">>

ScriptSrc(src) == [hasSrc |-> TRUE, src |-> src]

\* <script> without a src attribute
ScriptNoSrc == [hasSrc |-> FALSE, src |-> Null]

ScriptElements ==
  {ScriptSrc(Src_p5_js), ScriptSrc(Src_lib_p5_min_js), ScriptSrc(Src_jquery_js),
   ScriptNoSrc}

\* every markup with at most MaxScripts script elements
Markups == UNION {[1..n -> ScriptElements] : n \in 0..MaxScripts}

Text_call == <<"s","(",")">>
Text_draw_open == Str_function \o <<" ">> \o Str_draw \o <<"(",")","{">>

MarkupEntry(name, scripts) ==
  [name |-> name, isDir |-> FALSE, code |-> Null, scripts |-> scripts]

ScriptEntry(name, code) ==
  [name |-> name, isDir |-> FALSE, code |-> code, scripts |-> <<>>]

DirEntry(name) == [name |-> name, isDir |-> TRUE, code |-> Null, scripts |-> <<>>]

\* the entries the directories with several entries are made of
Entries ==
  {MarkupEntry(n, m) :
     n \in {Name_index_html, Name_a_html, Name_b_htm},
     m \in {<<ScriptSrc(Src_lib_p5_min_js)>>, <<ScriptSrc(Src_p5_js)>>, <<ScriptNoSrc>>}}
  \cup {ScriptEntry(n, t) :
          n \in {Name_sketch_js, Name_t_js},
          t \in {Text_setup, Text_call, Text_draw_open}}
  \cup {ScriptEntry(Name_r_txt, Text_setup), DirEntry(Name_a_html), DirEntry(Name_t_js)}

\* a directory has no two entries of the same name
DistinctNames(l) == \A i, j \in 1..Len(l) : l[i].name = l[j].name => i = j

Listings ==
  {l \in UNION {[1..n -> Entries] : n \in 0..MaxEntries} : DistinctNames(l)}
  \cup {<<MarkupEntry(n, m)>> : n \in {Name_index_html, Name_b_htm, Name_t_js}, m \in Markups}

(***************************************************************************)
(* The scan specification: one call of findProjects on the directory, or   *)
(* of isSketchHtml on one of its entries.                                  *)
(***************************************************************************)
InitScan ==
  /\ pc = "start"
  /\ IdleServer
  /\ op = "none"
  /\ file = NoFile
  /\ listing \in Listings
  /\ ret = NoResult
  /\ IdleFree

CallFindProjects ==
  /\ pc = "start"
  /\ pc' = "done"
  /\ op' = "findProjects"
  /\ ret' = FindProjects(listing)
  /\ UNCHANGED <<file, listing, program, project, ports, server, request, mounts, instance, disk, check>>

CallIsSketchHtml ==
  /\ pc = "start"
  /\ \E i \in 1..Len(listing) : file' = EntryFile(listing[i])
  /\ ret' = IsSketchHtml(file')
  /\ pc' = "done"
  /\ op' = "isSketchHtml"
  /\ UNCHANGED <<listing, program, project, ports, server, request, mounts, instance, disk, check>>

NextScan == CallFindProjects \/ CallIsSketchHtml

SpecScan == InitScan /\ [][NextScan]_vars

(***************************************************************************)
(* Claims about the directory scan and about markup classification.        *)
(***************************************************************************)
\* the names of the directory's entries
ListingNames == {listing[i].name : i \in 1..Len(listing)}

\* the names in the files lists of the projects
ClaimedNames(projects) == UNION {Range(ProjectFiles(projects[i])) : i \in 1..Len(projects)}

\* C1: the residual file list of findProjects is disjoint from the union of
\* the projects' files lists, and every entry of the directory is in the
\* residual list or in some project's files list, never in both.
C1_ResidualAndProjectsPartitionListing ==
  (pc = "done" /\ op = "findProjects" /\ ret.kind = "return")
    => LET residual == Range(ret.value.files)
           claimed == ClaimedNames(ret.value.projects)
       IN /\ residual \cap claimed = {}
          /\ \A n \in ListingNames : (n \in residual) # (n \in claimed)

\* findProjects returned a markup project that claims the directory's
\* sketch.js, and a residual file
C1_Witness_MarkupProjectAndResidual ==
  /\ pc = "done" /\ op = "findProjects" /\ ret.kind = "return"
  /\ Len(ret.value.files) > 0
  /\ \E i \in 1..Len(ret.value.projects) : ret.value.projects[i].indexPath # Null
  /\ Name_sketch_js \in ListingNames
  /\ Name_sketch_js \notin Range(ret.value.files)

\* C2: the names in the projects' files lists together with the residual list
\* are exactly the entries of the directory (no project names a file that is
\* not in the directory).
C2_FilesAreExactlyTheListing ==
  (pc = "done" /\ op = "findProjects" /\ ret.kind = "return")
    => ClaimedNames(ret.value.projects) \cup Range(ret.value.files) = ListingNames

\* the src attribute ends in p5.js or p5.min.js
IsP5ScriptSrc(script) ==
  /\ script.hasSrc
  /\ \/ EndsWith(script.src, Str_p5 \o Str_js)
     \/ EndsWith(script.src, Str_p5 \o Str_min_js)

\* C6: isSketchHtml returns true exactly when the path is not a directory,
\* ends in .htm or .html, and some script element has a src attribute ending
\* in p5.js or p5.min.js.
C6_SketchHtmlIffP5Script ==
  (pc = "done" /\ op = "isSketchHtml")
    => ret = Return(/\ ~file.isDir
                    /\ (EndsWith(file.path, Str_htm) \/ EndsWith(file.path, Str_html))
                    /\ \E i \in 1..Len(file.scripts) : IsP5ScriptSrc(file.scripts[i]))

(***************************************************************************)
(* The program model: findFreeVariables.                                   *)
(*                                                                         *)
(* A syntax tree is a record with a type field, as in estree; an absent    *)
(* child (null) is NullNode.  The generators are sets of the names they    *)
(* yield; a TypeError thrown while a generator runs is the element         *)
(* TypeErrorThrown of its set, which is no identifier.                     *)
(***************************************************************************)
NullNode == [type |-> "Null"]

TypeErrorThrown == <<"!">>

\* iterPatternNames without its RestElement case
RECURSIVE IterPatternNames_NoRest(_)
IterPatternNames_NoRest(node) ==
  CASE node.type = "Null" -> {TypeErrorThrown}
    [] node.type = "Identifier" -> {node.name}
    [] node.type = "ObjectPattern" ->
         UNION {IF node.properties[i].type = "Property"
                THEN IterPatternNames_NoRest(node.properties[i].value)
                ELSE IterPatternNames_NoRest(node.properties[i].argument) :
                i \in 1..Len(node.properties)}
    [] node.type = "ArrayPattern" ->
         UNION {IterPatternNames_NoRest(node.elements[i]) : i \in 1..Len(node.elements)}
    [] node.type = "AssignmentPattern" -> IterPatternNames_NoRest(node.left)
    [] OTHER -> {}

\* iterPatternNames(node); reading node.type of a null element throws
RECURSIVE IterPatternNames(_)
IterPatternNames(node) ==
  CASE node.type = "Null" -> {TypeErrorThrown}
    [] node.type = "Identifier" -> {node.name}
    [] node.type = "ObjectPattern" ->
         UNION {IF node.properties[i].type = "Property"
                THEN IterPatternNames(node.properties[i].value)
                ELSE IterPatternNames(node.properties[i].argument) :
                i \in 1..Len(node.properties)}
    [] node.type = "ArrayPattern" ->
         UNION {IterPatternNames(node.elements[i]) : i \in 1..Len(node.elements)}
    [] node.type = "RestElement" -> IterPatternNames(node.argument)
    [] node.type = "AssignmentPattern" -> IterPatternNames(node.left)
    [] OTHER -> {}

\* iterDeclaredNames(node): the break in the loop over the declarators leaves
\* the loop after the first declarator
IterDeclaredNames(node) ==
  CASE node.type = "FunctionDeclaration" ->
         IF node.id # NullNode THEN {node.id.name} ELSE {}
    [] node.type = "VariableDeclaration" ->
         IF Len(node.declarations) > 0
         THEN IterPatternNames(node.declarations[1].id)
         ELSE {}
    [] OTHER -> {}

\* iterExpression(node)
RECURSIVE IterExpression(_)
IterExpression(node) ==
  CASE node.type = "AssignmentExpression" -> IterExpression(node.right)
    [] node.type = "BinaryExpression" ->
         IterExpression(node.left) \cup IterExpression(node.right)
    [] node.type = "CallExpression" ->
         (IF node.callee.type # "Super" THEN IterExpression(node.callee) ELSE {})
         \cup UNION {IF node.arguments[i].type # "SpreadElement"
                     THEN IterExpression(node.arguments[i])
                     ELSE {} : i \in 1..Len(node.arguments)}
    [] node.type = "MemberExpression" ->
         IF node.object.type # "Super" THEN IterExpression(node.object) ELSE {}
    [] node.type = "Identifier" -> {node.name}
    [] node.type = "Literal" -> {}
    [] OTHER -> {}

\* the locals of a function declaration: its name, its parameters' names and
\* the names iterDeclaredNames yields for the statements of its body
FunctionLocals(node) ==
  (IF node.id # NullNode THEN {node.id.name} ELSE {})
  \cup UNION {IterPatternNames(node.params[i]) : i \in 1..Len(node.params)}
  \cup UNION {IterDeclaredNames(node.body.body[i]) : i \in 1..Len(node.body.body)}

\* what the FunctionDeclaration case yields: the names inner of the body's
\* statements that are not in locals; an error thrown while the locals are
\* collected ends the generator
YieldNonLocals(locals, inner) ==
  IF TypeErrorThrown \in locals THEN {TypeErrorThrown} ELSE inner \ locals

\* iterStatement(node)
RECURSIVE IterStatement(_)
IterStatement(node) ==
  CASE node.type = "FunctionDeclaration" ->
         YieldNonLocals(FunctionLocals(node),
           UNION {IterStatement(node.body.body[i]) : i \in 1..Len(node.body.body)})
    [] node.type = "BlockStatement" ->
         UNION {IterStatement(node.body[i]) : i \in 1..Len(node.body)}
    [] node.type = "DoWhileStatement" ->
         IterStatement(node.body) \cup IterExpression(node.test)
    [] node.type = "ExpressionStatement" -> IterExpression(node.expression)
    [] node.type = "ForStatement" ->
         (IF node.test # NullNode THEN IterExpression(node.test) ELSE {})
         \cup (IF node.update # NullNode THEN IterExpression(node.update) ELSE {})
         \cup IterStatement(node.body)
    [] node.type = "ForInStatement" ->
         IterExpression(node.right) \cup IterStatement(node.body)
    [] node.type = "IfStatement" ->
         IterExpression(node.test) \cup IterStatement(node.consequent)
         \cup (IF node.alternate # NullNode THEN IterStatement(node.alternate) ELSE {})
    [] node.type = "LabeledStatement" -> IterStatement(node.body)
    [] node.type = "ReturnStatement" ->
         IF node.argument # NullNode THEN IterExpression(node.argument) ELSE {}
    [] node.type = "VariableDeclaration" ->
         UNION {IF node.declarations[i].init # NullNode
                THEN IterExpression(node.declarations[i].init)
                ELSE {} : i \in 1..Len(node.declarations)}
    [] node.type = "WhileStatement" ->
         IterExpression(node.test) \cup IterStatement(node.body)
    [] OTHER -> {}

\* program.body.filter(node => node.type === 'FunctionDeclaration')
FunctionDeclarations(prog) ==
  SelectSeq(prog.body, LAMBDA node : node.type = "FunctionDeclaration")

\* the names the loop of findFreeVariables receives from iterStatement
YieldedNames(prog) ==
  UNION {IterStatement(FunctionDeclarations(prog)[i]) :
         i \in 1..Len(FunctionDeclarations(prog))}

\* globalVariables
GlobalVariables(prog) ==
  {FunctionDeclarations(prog)[i].id.name : i \in 1..Len(FunctionDeclarations(prog))}

\* the loop of findFreeVariables adding every yielded name
AddFreeVariables_NoGlobals(yielded, globalVariables) ==
  IF TypeErrorThrown \in yielded THEN Throw(TypeError) ELSE Return(yielded)

\* the loop of findFreeVariables: the yielded names that are not global
AddFreeVariables(yielded, globalVariables) ==
  IF TypeErrorThrown \in yielded THEN Throw(TypeError)
  ELSE Return(yielded \ globalVariables)

\* findFreeVariables(program)
FindFreeVariables(prog) == AddFreeVariables(YieldedNames(prog), GlobalVariables(prog))

(***************************************************************************)
(* The programs of the free-variable specification: a function f, then     *)
(* possibly one more top-level statement.                                  *)
(***************************************************************************)
Id(name) == [type |-> "Identifier", name |-> name]

IdA == Id(<<"a">>)
IdB == Id(<<"b">>)
IdF == Id(<<"f">>)
IdG == Id(<<"g">>)

Literal == [type |-> "Literal", value |-> 1]

Call(callee, arguments) ==
  [type |-> "CallExpression", callee |-> callee, arguments |-> arguments]

ExpressionStatement(e) == [type |-> "ExpressionStatement", expression |-> e]

ReturnStatement(e) == [type |-> "ReturnStatement", argument |-> e]

Declarator(id, init) == [type |-> "VariableDeclarator", id |-> id, init |-> init]

VariableDeclaration(declarations) ==
  [type |-> "VariableDeclaration", kind |-> "var", declarations |-> declarations]

BlockStatement(body) == [type |-> "BlockStatement", body |-> body]

FunctionDeclaration(id, params, body) ==
  [type |-> "FunctionDeclaration", id |-> id, params |-> params,
   body |-> BlockStatement(body)]

RestElement(argument) == [type |-> "RestElement", argument |-> argument]

\* { a, ...b }
ObjectPatternAB ==
  [type |-> "ObjectPattern",
   properties |-> <<[type |-> "Property", key |-> IdA, value |-> IdA],
                    RestElement(IdB)>>]

\* [a = 1, ...b]
ArrayPatternAB ==
  [type |-> "ArrayPattern",
   elements |-> <<[type |-> "AssignmentPattern", left |-> IdA, right |-> Literal],
                  RestElement(IdB)>>]

\* [, a]
ArrayPatternHole == [type |-> "ArrayPattern", elements |-> <<NullNode, IdA>>]

\* a = 1
AssignmentPatternA == [type |-> "AssignmentPattern", left |-> IdA, right |-> Literal]

Patterns ==
  {IdA, IdB, ObjectPatternAB, ArrayPatternAB, ArrayPatternHole, RestElement(IdB),
   AssignmentPatternA}

Expressions ==
  {IdA,
   Call(IdF, <<IdA>>),
   Call(IdG, <<>>),
   [type |-> "MemberExpression", object |-> IdB, property |-> IdA, computed |-> FALSE],
   [type |-> "AssignmentExpression", operator |-> "=", left |-> IdA, right |-> IdB],
   [type |-> "BinaryExpression", operator |-> "+", left |-> IdA, right |-> IdB],
   [type |-> "UnaryExpression", operator |-> "!", argument |-> IdB]}

SimpleStatements ==
  {ExpressionStatement(e) : e \in Expressions}
  \cup {ReturnStatement(e) : e \in {NullNode, IdA, IdB}}
  \cup {VariableDeclaration(<<Declarator(IdA, NullNode)>>),
        VariableDeclaration(<<Declarator(IdB, IdA)>>),
        VariableDeclaration(<<Declarator(IdA, NullNode), Declarator(IdB, NullNode)>>),
        VariableDeclaration(<<Declarator(ObjectPatternAB, Literal)>>),
        [type |-> "EmptyStatement"],
        [type |-> "ThrowStatement", argument |-> IdA]}

CompoundStatements ==
  {BlockStatement(<<VariableDeclaration(<<Declarator(IdA, NullNode)>>)>>),
   BlockStatement(<<ReturnStatement(IdB)>>),
   [type |-> "IfStatement", test |-> IdB,
    consequent |-> BlockStatement(<<VariableDeclaration(<<Declarator(IdA, NullNode)>>)>>),
    alternate |-> NullNode],
   [type |-> "IfStatement", test |-> IdA,
    consequent |-> ReturnStatement(IdB), alternate |-> ReturnStatement(IdA)],
   [type |-> "ForStatement",
    init |-> VariableDeclaration(<<Declarator(IdA, Literal)>>),
    test |-> IdA, update |-> NullNode, body |-> [type |-> "EmptyStatement"]],
   [type |-> "ForStatement", init |-> NullNode, test |-> IdB, update |-> IdA,
    body |-> ExpressionStatement(IdA)],
   [type |-> "ForInStatement",
    left |-> VariableDeclaration(<<Declarator(IdA, NullNode)>>),
    right |-> IdB, body |-> ExpressionStatement(IdA)],
   [type |-> "WhileStatement", test |-> IdA,
    body |-> VariableDeclaration(<<Declarator(IdB, NullNode)>>)],
   [type |-> "DoWhileStatement", body |-> ReturnStatement(IdA), test |-> IdB],
   [type |-> "LabeledStatement", label |-> IdB, body |-> ReturnStatement(IdA)],
   FunctionDeclaration(IdA, <<IdB>>, <<ReturnStatement(IdB)>>),
   FunctionDeclaration(IdA, <<>>, <<ReturnStatement(IdB)>>)}

Statements == SimpleStatements \cup CompoundStatements

\* the bodies and the parameter lists of f
Bodies == UNION {[1..n -> Statements] : n \in 0..MaxBody}

ParameterLists == UNION {[1..n -> Patterns] : n \in 0..MaxParams}

\* the bodies f has together with every parameter list
ShortBodies ==
  {<<>>, <<ReturnStatement(IdA)>>, <<ReturnStatement(IdB)>>,
   <<FunctionDeclaration(IdA, <<IdB>>, <<ReturnStatement(IdB)>>), ReturnStatement(IdB)>>}

FunctionsF ==
  {FunctionDeclaration(IdF, ps, b) : ps \in {<<>>, <<IdA>>}, b \in Bodies}
  \cup {FunctionDeclaration(IdF, ps, b) : ps \in ParameterLists, b \in ShortBodies}

\* what follows f in the program
Rest ==
  {<<>>,
   <<FunctionDeclaration(IdG, <<>>, <<ReturnStatement(IdA)>>)>>,
   <<FunctionDeclaration(IdG, <<IdB>>, <<ExpressionStatement(Call(IdF, <<IdB>>))>>)>>,
   <<FunctionDeclaration(IdA, <<>>, <<>>)>>,
   <<ExpressionStatement(IdB)>>}

Programs == {[type |-> "Program", body |-> <<fd>> \o rest] : fd \in FunctionsF, rest \in Rest}

(***************************************************************************)
(* The free-variable specification: one call of findFreeVariables.         *)
(***************************************************************************)
InitFree ==
  /\ pc = "start"
  /\ IdleServer
  /\ op = "none"
  /\ file = NoFile
  /\ IdleScan
  /\ program \in Programs
  /\ ret = NoResult

CallFindFreeVariables ==
  /\ pc = "start"
  /\ pc' = "done"
  /\ op' = "findFreeVariables"
  /\ ret' = FindFreeVariables(program)
  /\ UNCHANGED <<file, listing, program, project, ports, server, request, mounts, instance, disk, check>>

NextFree == CallFindFreeVariables

SpecFree == InitFree /\ [][NextFree]_vars

(***************************************************************************)
(* Claims about findFreeVariables.                                         *)
(***************************************************************************)
Returned == pc = "done" /\ op = "findFreeVariables" /\ ret.kind = "return"

\* the indices of the top-level function declarations
TopLevelFunctions ==
  {i \in 1..Len(program.body) : program.body[i].type = "FunctionDeclaration"}

\* the identifiers a pattern binds
RECURSIVE LeafNames(_)
LeafNames(pattern) ==
  CASE pattern.type = "Identifier" -> {pattern.name}
    [] pattern.type = "ObjectPattern" ->
         UNION {LeafNames(IF pattern.properties[i].type = "Property"
                          THEN pattern.properties[i].value
                          ELSE pattern.properties[i].argument) :
                i \in 1..Len(pattern.properties)}
    [] pattern.type = "ArrayPattern" ->
         UNION {LeafNames(pattern.elements[i]) :
                i \in {k \in 1..Len(pattern.elements) : pattern.elements[k] # NullNode}}
    [] pattern.type = "RestElement" -> LeafNames(pattern.argument)
    [] pattern.type = "AssignmentPattern" -> LeafNames(pattern.left)
    [] OTHER -> {}

\* the names a function's parameters bind
ParameterNames(fd) == UNION {LeafNames(fd.params[i]) : i \in 1..Len(fd.params)}

\* the names a variable or function declaration introduces
IntroducedNames(stmt) ==
  CASE stmt.type = "FunctionDeclaration" -> {stmt.id.name}
    [] stmt.type = "VariableDeclaration" ->
         UNION {LeafNames(stmt.declarations[i].id) : i \in 1..Len(stmt.declarations)}
    [] OTHER -> {}

\* the names introduced by the declarations that are direct statements of the
\* function's body
DirectlyDeclaredNames(fd) ==
  UNION {IntroducedNames(fd.body.body[i]) : i \in 1..Len(fd.body.body)}

\* the names introduced by the declarations inside a statement that is a block,
\* a loop, a conditional or a labeled statement
RECURSIVE NamesDeclaredInside(_)
NamesDeclaredInside(stmt) ==
  LET inner(child) == IntroducedNames(child) \cup NamesDeclaredInside(child)
  IN CASE stmt.type = "BlockStatement" ->
            UNION {inner(stmt.body[i]) : i \in 1..Len(stmt.body)}
       [] stmt.type = "IfStatement" ->
            inner(stmt.consequent)
            \cup (IF stmt.alternate # NullNode THEN inner(stmt.alternate) ELSE {})
       [] stmt.type = "ForStatement" ->
            (IF stmt.init # NullNode THEN IntroducedNames(stmt.init) ELSE {})
            \cup inner(stmt.body)
       [] stmt.type = "ForInStatement" -> IntroducedNames(stmt.left) \cup inner(stmt.body)
       [] stmt.type \in {"WhileStatement", "DoWhileStatement", "LabeledStatement"} ->
            inner(stmt.body)
       [] OTHER -> {}

\* the names introduced by the declarations nested in the function's body
NestedDeclaredNames(fd) ==
  UNION {NamesDeclaredInside(fd.body.body[i]) : i \in 1..Len(fd.body.body)}

\* the function declarations that are direct statements of the function's body
NestedFunctions(fd) ==
  {fd.body.body[i] : i \in {k \in 1..Len(fd.body.body) :
                             fd.body.body[k].type = "FunctionDeclaration"}}

\* the top-level function declarations of the program and the function
\* declarations in their bodies
AllFunctions ==
  {program.body[i] : i \in TopLevelFunctions}
  \cup UNION {NestedFunctions(program.body[i]) : i \in TopLevelFunctions}

\* C7: no name of a top-level function declaration is in the result of
\* findFreeVariables, whichever top-level function references it.
C7_TopLevelFunctionNamesNeverFree ==
  Returned => \A i \in TopLevelFunctions : program.body[i].id.name \notin ret.value

\* f references itself and the top-level function g, and findFreeVariables returned
C7_Witness_SelfAndMutualCall ==
  /\ Returned
  /\ \E i, j \in TopLevelFunctions :
       /\ i # j
       /\ program.body[i].id.name \in YieldedNames(program)
       /\ program.body[j].id.name \in YieldedNames(program)

\* C8: every name introduced by a variable or function declaration that is a
\* direct statement of a top-level function's body (each declarator, each leaf
\* of a destructuring pattern) is local to the function: no reference to it in
\* the body is reported free.
C8_DirectDeclarationsAreLocal ==
  Returned => \A i \in TopLevelFunctions :
                DirectlyDeclaredNames(program.body[i]) \cap IterStatement(program.body[i]) = {}

\* C9: a name introduced by a declaration nested inside a block, a loop (its
\* init included) or a conditional of a top-level function's body is local to
\* the function: no reference to it in the body is reported free.
C9_NestedDeclarationsAreLocal ==
  Returned => \A i \in TopLevelFunctions :
                NestedDeclaredNames(program.body[i]) \cap IterStatement(program.body[i]) = {}

\* C10: a reference in a function's body to one of the function's parameter
\* names (every leaf of a destructuring parameter included) is not reported
\* free; such a name is in the result only through a reference in another
\* top-level function that does not bind it.
C10_ParametersNeverFree ==
  Returned =>
    /\ \A fd \in AllFunctions : ParameterNames(fd) \cap IterStatement(fd) = {}
    /\ \A i \in TopLevelFunctions :
         \A n \in ParameterNames(program.body[i]) \cap ret.value :
           \E j \in TopLevelFunctions \ {i} :
             /\ n \in IterStatement(program.body[j])
             /\ n \notin ParameterNames(program.body[j])

\* f has a rest or destructuring parameter that binds b, its body returns b,
\* and b is not in the result
C10_Witness_DestructuredParameter ==
  /\ Returned
  /\ program.body[1].params # <<>>
  /\ program.body[1].params[1].type # "Identifier"
  /\ <<"b">> \in ParameterNames(program.body[1])
  /\ \E k \in 1..Len(program.body[1].body.body) :
       program.body[1].body.body[k] = ReturnStatement(IdB)
  /\ <<"b">> \notin ret.value

(***************************************************************************)
(* findP5MemberReferences.                                                 *)
(***************************************************************************)
\* the number of top-level statements of the program searched for references
MaxStatements == 2

Str_prototype == <<"p", "r", "o", "t", "o", "t", "y", "p", "e">>
Str_foo == <<"f", "o", "o">>

\* iterExpression(node) of findP5MemberReferences: an assignment yields from
\* its right side only, and a member expression yields only where its object
\* is the identifier p5 itself
RECURSIVE MemberIterExpression(_)
MemberIterExpression(node) ==
  CASE node.type = "AssignmentExpression" -> MemberIterExpression(node.right)
    [] node.type = "BinaryExpression" ->
         MemberIterExpression(node.left) \cup MemberIterExpression(node.right)
    [] node.type = "CallExpression" ->
         (IF node.callee.type # "Super" THEN MemberIterExpression(node.callee) ELSE {})
         \cup UNION {IF node.arguments[i].type # "SpreadElement"
                     THEN MemberIterExpression(node.arguments[i]) ELSE {} :
                     i \in 1..Len(node.arguments)}
    [] node.type = "MemberExpression" ->
         IF /\ node.object.type = "Identifier"
            /\ node.object.name = Str_p5
            /\ node.property.type = "Identifier"
         THEN {node.property.name} ELSE {}
    [] OTHER -> {}

\* iterStatement(node) of findP5MemberReferences
RECURSIVE MemberIterStatement(_)
MemberIterStatement(node) ==
  CASE node.type = "FunctionDeclaration" ->
         UNION {MemberIterStatement(node.body.body[i]) : i \in 1..Len(node.body.body)}
    [] node.type = "VariableDeclaration" ->
         UNION {IF node.declarations[i].init # NullNode
                THEN MemberIterExpression(node.declarations[i].init) ELSE {} :
                i \in 1..Len(node.declarations)}
    [] node.type = "ExpressionStatement" -> MemberIterExpression(node.expression)
    [] node.type = "ReturnStatement" ->
         IF node.argument # NullNode THEN MemberIterExpression(node.argument) ELSE {}
    [] OTHER -> {}

\* iterProgram(program)
MemberIterProgram(prog) ==
  UNION {MemberIterStatement(prog.body[i]) : i \in 1..Len(prog.body)}

\* findP5MemberReferences(program)
FindP5MemberReferences(prog) == Return(MemberIterProgram(prog))

IdP5 == Id(Str_p5)

MemberExpression(object, property) ==
  [type |-> "MemberExpression", object |-> object, property |-> property,
   computed |-> FALSE]

Assignment(left, right) ==
  [type |-> "AssignmentExpression", operator |-> "=", left |-> left, right |-> right]

\* p5.prototype, p5.foo, a.foo, p5.prototype.foo
MemberChains ==
  {MemberExpression(IdP5, Id(Str_prototype)),
   MemberExpression(IdP5, Id(Str_foo)),
   MemberExpression(IdA, Id(Str_foo)),
   MemberExpression(MemberExpression(IdP5, Id(Str_prototype)), Id(Str_foo))}

\* object[property]
ComputedMember(object, property) ==
  [type |-> "MemberExpression", object |-> object, property |-> property,
   computed |-> TRUE]

\* the operands, with the bracket accesses p5[a], p5[1] and a[a]
MemberOperands ==
  MemberChains
  \cup {IdP5, Literal, ComputedMember(IdP5, IdA), ComputedMember(IdP5, Literal),
        ComputedMember(IdA, IdA)}

MemberExpressions ==
  MemberOperands
  \cup {Assignment(l, r) : l \in MemberChains, r \in {Literal, MemberExpression(IdP5, Id(Str_foo))}}
  \cup {Call(c, <<Literal>>) : c \in MemberChains}
  \cup {Call(IdA, <<e>>) : e \in MemberChains}
  \cup {[type |-> "BinaryExpression", operator |-> "+", left |-> e, right |-> Literal] :
          e \in MemberChains}
  \cup {[type |-> "UnaryExpression", operator |-> "!", argument |-> e] : e \in MemberChains}

MemberStatements ==
  {ExpressionStatement(e) : e \in MemberExpressions}
  \cup {VariableDeclaration(<<Declarator(IdA, e)>>) : e \in MemberChains \cup {NullNode}}
  \cup {FunctionDeclaration(IdF, <<>>, <<ReturnStatement(e)>>) : e \in MemberChains \cup {NullNode}}
  \cup {[type |-> "IfStatement", test |-> MemberExpression(IdP5, Id(Str_foo)),
         consequent |-> [type |-> "EmptyStatement"], alternate |-> NullNode]}

MemberPrograms ==
  {[type |-> "Program", body |-> b] :
     b \in UNION {[1..n -> MemberStatements] : n \in 1..MaxStatements}}

(***************************************************************************)
(* The member-reference specification: one call of findP5MemberReferences. *)
(***************************************************************************)
InitMember ==
  /\ pc = "start"
  /\ IdleServer
  /\ op = "none"
  /\ file = NoFile
  /\ IdleScan
  /\ program \in MemberPrograms
  /\ ret = NoResult

CallFindP5MemberReferences ==
  /\ pc = "start"
  /\ pc' = "done"
  /\ op' = "findP5MemberReferences"
  /\ ret' = FindP5MemberReferences(program)
  /\ UNCHANGED <<file, listing, program, project, ports, server, request, mounts, instance, disk, check>>

NextMember == CallFindP5MemberReferences

SpecMember == InitMember /\ [][NextMember]_vars

\* every sub-expression of an expression, itself included
RECURSIVE SubExpressions(_)
SubExpressions(e) ==
  {e} \cup
  CASE e.type \in {"AssignmentExpression", "BinaryExpression"} ->
         SubExpressions(e.left) \cup SubExpressions(e.right)
    [] e.type = "CallExpression" ->
         SubExpressions(e.callee)
         \cup UNION {SubExpressions(e.arguments[i]) : i \in 1..Len(e.arguments)}
    [] e.type = "MemberExpression" -> SubExpressions(e.object)
    [] e.type = "UnaryExpression" -> SubExpressions(e.argument)
    [] OTHER -> {}

\* the property names read immediately off the identifier p5 in an expression
ImmediateP5Properties(e) ==
  {m.property.name : m \in {x \in SubExpressions(e) :
                              x.type = "MemberExpression" /\ ~x.computed
                              /\ x.object = IdP5}}

\* C11: for the program p5.prototype.foo = 1 findP5MemberReferences returns
\* exactly {prototype}; a member access off the identifier p5 yields its
\* immediate property name wherever it occurs in a top-level expression
\* statement, and deeper properties of the chain are not yielded.
C11_ImmediatePropertyOfP5 ==
  (pc = "done" /\ op = "findP5MemberReferences") =>
    /\ program.body =
         <<ExpressionStatement(
             Assignment(MemberExpression(MemberExpression(IdP5, Id(Str_prototype)),
                                         Id(Str_foo)),
                        Literal))>>
       => ret = Return({Str_prototype})
    /\ \A i \in 1..Len(program.body) :
         program.body[i].type = "ExpressionStatement"
         => ImmediateP5Properties(program.body[i].expression) \subseteq ret.value

(***************************************************************************)
(* Further claims about the directory scan and markup classification.      *)
(***************************************************************************)
FoundProjects == pc = "done" /\ op = "findProjects" /\ ret.kind = "return"

\* the names of the directory's entries in the order they are enumerated
EnumeratedNames == [i \in 1..Len(listing) |-> listing[i].name]

\* the index files of the markup-derived projects, in the order of the list
MarkupIndexPaths(projects) ==
  LET markup == SelectSeq(projects, LAMBDA q : q.indexPath # Null)
  IN [i \in 1..Len(markup) |-> markup[i].indexPath]

\* the script files of the script-derived projects, in the order of the list
ScriptSketchPaths(projects) ==
  LET script == SelectSeq(projects, LAMBDA q : q.indexPath = Null)
  IN [i \in 1..Len(script) |-> script[i].sketchPath]

\* C12: in the project list of findProjects every markup-derived project
\* precedes every script-derived project, and within each group the projects
\* are in the order in which their files were enumerated.
C12_MarkupFirstInEnumerationOrder ==
  FoundProjects =>
    LET projects == ret.value.projects
    IN /\ \A i, j \in 1..Len(projects) :
            (projects[i].indexPath # Null /\ projects[j].indexPath = Null) => i < j
       /\ MarkupIndexPaths(projects) =
            SelectSeq(EnumeratedNames, LAMBDA n : n \in Range(MarkupIndexPaths(projects)))
       /\ ScriptSketchPaths(projects) =
            SelectSeq(EnumeratedNames, LAMBDA n : n \in Range(ScriptSketchPaths(projects)))

\* findProjects returned two markup-derived projects and a script-derived one
C12_Witness_TwoMarkupOneScript ==
  /\ FoundProjects
  /\ Len(MarkupIndexPaths(ret.value.projects)) = 2
  /\ Len(ScriptSketchPaths(ret.value.projects)) = 1

\* C13: no file name is in the files list of more than one project returned
\* by findProjects.
C13_NoFileInTwoProjects ==
  FoundProjects =>
    \A i, j \in 1..Len(ret.value.projects) :
      i # j => Range(ProjectFiles(ret.value.projects[i]))
               \cap Range(ProjectFiles(ret.value.projects[j])) = {}

\* C14: every entry that is not a directory, is named .htm or .html and is
\* sketch markup (a script element's src ends in p5.js or p5.min.js, and
\* isSketchHtml returns true) is the index file of a project of findProjects.
C14_EverySketchMarkupYieldsProject ==
  FoundProjects =>
    \A i \in 1..Len(listing) :
      (/\ ~listing[i].isDir
       /\ EndsWith(listing[i].name, Str_htm) \/ EndsWith(listing[i].name, Str_html)
       /\ \E k \in 1..Len(listing[i].scripts) : IsP5ScriptSrc(listing[i].scripts[k])
       /\ IsSketchHtml(EntryFile(listing[i])) = Return(TRUE))
      => \E k \in 1..Len(ret.value.projects) :
           ret.value.projects[k].indexPath = listing[i].name

\* C17: isSketchHtml returns a boolean for markup with a script element that
\* has no src attribute; the element is no match, and the remaining script
\* elements decide.
C17_ScriptWithoutSrcIsNoMatch ==
  (/\ pc = "done" /\ op = "isSketchHtml"
   /\ \E i \in 1..Len(file.scripts) : ~file.scripts[i].hasSrc)
  => /\ ret.kind = "return"
     /\ ret = IsSketchHtml([file EXCEPT !.scripts = SelectSeq(@, LAMBDA e : e.hasSrc)])

(***************************************************************************)
(* Project.name.                                                           *)
(***************************************************************************)
\* the number of pieces the text of an index file is assembled from
MaxMarkupPieces == 6

Str_title_open == <<"<", "t", "i", "t", "l", "e", ">">>
Str_title_close == <<"<", "/", "t", "i", "t", "l", "e", ">">>

Maximum(S) == CHOOSE x \in S : \A y \in S : y <= x

\* the positions where <title> starts in s
TitleOpens(s) == {i \in 1..Len(s) : HasAt(s, i, Str_title_open)}

\* the positions where a </title> starts that ends a group (.+) begun after
\* the <title> at i
TitleCloses(s, i) ==
  {j \in (i + Len(Str_title_open) + 1)..Len(s) : HasAt(s, j, Str_title_close)}

\* htmlContent.match(/.*<title>(.+)<\/title>/s): the leading .* and the group
\* are greedy and the dot matches every character, so the match takes the
\* last <title> that a </title> follows after at least one character, and the
\* group runs to the last </title>
MatchTitle(s) ==
  LET opens == {i \in TitleOpens(s) : TitleCloses(s, i) # {}}
  IN IF opens = {} THEN [matched |-> FALSE, group |-> Null]
     ELSE LET i == Maximum(opens)
              j == Maximum(TitleCloses(s, i))
          IN [matched |-> TRUE, group |-> SubSeq(s, i + Len(Str_title_open), j - 1)]

\* String.prototype.trim
RECURSIVE Trim(_)
Trim(s) ==
  IF s = <<>> THEN s
  ELSE IF IsSpace(Head(s)) THEN Trim(Tail(s))
  ELSE IF IsSpace(s[Len(s)]) THEN Trim(SubSeq(s, 1, Len(s) - 1))
  ELSE s

\* s.replace(/\.(html?|js)$/, '')
RemoveExtension(s) ==
  IF EndsWith(s, Str_html) THEN SubSeq(s, 1, Len(s) - Len(Str_html))
  ELSE IF EndsWith(s, Str_htm) THEN SubSeq(s, 1, Len(s) - Len(Str_htm))
  ELSE IF EndsWith(s, Str_js) THEN SubSeq(s, 1, Len(s) - Len(Str_js))
  ELSE s

\* Project.rootFile
RootFile(q) ==
  IF q.indexPath # Null THEN q.indexPath
  ELSE IF q.sketchPath # Null THEN q.sketchPath
  ELSE Basename(q.dirPath)

\* the end of Project.name once the index file was searched for a title
NameFromMatch(q, m) ==
  IF m.matched THEN Return(Trim(m.group)) ELSE Return(RemoveExtension(RootFile(q)))

\* Project.name, f the file that path.join(dirPath, indexPath) names
ProjectName(q, f) ==
  IF q.title # Null THEN Return(q.title)
  ELSE IF q.indexPath # Null /\ f.exists
  THEN IF f.isDir THEN Throw(SystemError("EISDIR"))
       ELSE NameFromMatch(q, MatchTitle(f.code))
  ELSE Return(RemoveExtension(RootFile(q)))

MarkupPieces == {Str_title_open, Str_title_close, <<"A">>, <<" ", "B", "\n">>, <<"x">>}

\* the texts of the index file
MarkupTexts ==
  {Flatten(ps) : ps \in UNION {[1..n -> MarkupPieces] : n \in 0..MaxMarkupPieces}}

Str_T == <<"T">>

\* the projects whose name is read, each with the file its index path names
NamedProjects ==
  {<<[Project(Dir, Name_index_html, Name_sketch_js) EXCEPT !.title = t],
     [path |-> PathJoin(Dir, Name_index_html), exists |-> TRUE, isDir |-> FALSE,
      code |-> c]>> : t \in {Null, Str_T}, c \in MarkupTexts}
  \cup {<<[Project(Dir, i, k) EXCEPT !.title = t],
          [path |-> PathJoin(Dir, i), exists |-> e, isDir |-> d,
           code |-> Str_title_open \o <<"A">> \o Str_title_close]>> :
          t \in {Null, Str_T}, i \in {Name_index_html, Name_b_htm, Name_r_txt},
          k \in {Name_sketch_js, Null}, e \in BOOLEAN, d \in BOOLEAN}
  \cup {<<[Project(Dir, Null, k) EXCEPT !.title = t], NoFile>> :
          t \in {Null, Str_T}, k \in {Name_sketch_js, Name_r_txt, Null}}

(***************************************************************************)
(* The name specification: one read of Project.name.                       *)
(***************************************************************************)
InitName ==
  /\ pc = "start"
  /\ IdleRest
  /\ op = "none"
  /\ IdleScan
  /\ IdleFree
  /\ ports = <<>>
  /\ server = NoServer
  /\ request = NoRequest
  /\ \E named \in NamedProjects : project = named[1] /\ file = named[2]
  /\ ret = NoResult

GetName ==
  /\ pc = "start"
  /\ pc' = "done"
  /\ op' = "Project.name"
  /\ ret' = ProjectName(project, file)
  /\ UNCHANGED <<file, listing, program, project, ports, server, request, mounts, instance, disk, check>>

NextName == GetName

SpecName == InitName /\ [][NextName]_vars

\* the content of the first <title>...</title> element of s
FirstTitleElement(s) ==
  LET opens == {i \in 1..Len(s) : HasAt(s, i, Str_title_open)
                  /\ \E j \in (i + Len(Str_title_open))..Len(s) : HasAt(s, j, Str_title_close)}
  IN IF opens = {} THEN [found |-> FALSE, content |-> <<>>]
     ELSE LET i == CHOOSE x \in opens : \A y \in opens : x <= y
              ends == {j \in (i + Len(Str_title_open))..Len(s) : HasAt(s, j, Str_title_close)}
              j == CHOOSE x \in ends : \A y \in ends : x <= y
          IN [found |-> TRUE, content |-> SubSeq(s, i + Len(Str_title_open), j - 1)]

\* the root file name without its .htm, .html or .js extension
RootName(q) ==
  LET root == IF q.indexPath # Null THEN q.indexPath ELSE q.sketchPath
      ext == {x \in {Str_htm, Str_html, Str_js} : EndsWith(root, x)}
  IN IF ext = {} THEN root
     ELSE SubSeq(root, 1, Len(root) - Maximum({Len(x) : x \in ext}))

\* C15: Project.name is the explicit title if one was given; otherwise, if
\* the index file exists and contains title elements, the trimmed content of
\* the first <title>...</title> element; otherwise the root file name without
\* its .htm/.html/.js extension.  Stated for a project that has an index or a
\* script file and for markup whose first title element is not empty.
C15_NamePriority ==
  (/\ pc = "done" /\ op = "Project.name" /\ ret.kind = "return"
   /\ project.indexPath # Null \/ project.sketchPath # Null
   /\ FirstTitleElement(file.code).found => FirstTitleElement(file.code).content # <<>>) =>
    ret.value =
      IF project.title # Null THEN project.title
      ELSE IF project.indexPath # Null /\ file.exists
              /\ FirstTitleElement(file.code).found
           THEN Trim(FirstTitleElement(file.code).content)
           ELSE RootName(project)


(***************************************************************************)
(* The /*.js route of the server.                                          *)
(*                                                                         *)
(* A request is [acceptsHtml, fmtView]: whether its accept header matches  *)
(* /\btext\/html\b/ and whether its query has fmt=view.  The handler ends  *)
(* by sending a response, by calling next() or by throwing; a rendered     *)
(* template is the record of the template's name and of its context.       *)
(***************************************************************************)
\* the number of pieces the requested script's text is assembled from
MaxRoutePieces == 3

Send(body) == [kind |-> "send", body |-> body]

NextHandler == [kind |-> "next"]

\* injectLiveReloadScript(createSketchHtml(filePath))
SketchPage(filePath) ==
  [template |-> "index.html", sketchPath |-> filePath, liveReload |-> TRUE]

\* the diagnostic rendered with the error's fileName as it is
ReportSyntaxError_FullPath(e) ==
  [template |-> "report-syntax-error.js.njk", fileName |-> e.fileName,
   message |-> e.message]

\* jsTemplateEnv.renderString(template, { fileName: path.basename(e.fileName), message: e.message })
ReportSyntaxError(e) ==
  [template |-> "report-syntax-error.js.njk", fileName |-> Basename(e.fileName),
   message |-> e.message]

\* the try statement of the route and the next() after it, r the outcome of
\* checkedParseScript
AnswerParse(r) ==
  IF r.kind = "return" THEN NextHandler
  ELSE IF r.error.name = "JavascriptSyntaxError" THEN Send(ReportSyntaxError(r.error))
  ELSE r

\* the route from its first if on, sketch the outcome of isSketchJs and r the
\* outcome of checkedParseScript
AnswerSketch(f, sketch, r) ==
  IF sketch.kind = "throw" THEN sketch
  ELSE IF sketch.value THEN Send(SketchPage(f.path))
  ELSE AnswerParse(r)

\* app.get('/*.js', (req, res, next) => ...) for the file that
\* path.join(serverOptions.root, req.path) names
GetJsRoute(req, f) ==
  IF req.acceptsHtml /\ ~req.fmtView
  THEN AnswerSketch(f, IsSketchJs(f), CheckedParseScript(f))
  ELSE AnswerParse(CheckedParseScript(f))

Requests == [acceptsHtml : BOOLEAN, fmtView : BOOLEAN]

\* the scripts that are requested
RouteFiles ==
  {JsFile(Name_t_js, Flatten(ps)) :
     ps \in UNION {[1..n -> Pieces] : n \in 0..MaxRoutePieces}}
  \cup {[path |-> PathJoin(Dir, Name_t_js), exists |-> TRUE, isDir |-> TRUE, code |-> Null],
        [path |-> PathJoin(Dir, Name_t_js), exists |-> FALSE, isDir |-> FALSE, code |-> Null]}

(***************************************************************************)
(* The /*.md routes of the two servers.  What a handler did with a request *)
(* is the sequence of its calls of res.send and next.                      *)
(***************************************************************************)
Str_md == <<".", "m", "d">>

Name_r_md == <<"r", ".", "m", "d">>

Handled(calls) == [kind |-> "handled", calls |-> calls]

\* marked(fileData)
Marked(fileData) == [rendered |-> "marked", source |-> fileData]

\* server.ts: app.get('/*.md', (req, res) => ...)
GetMdRoute(req, f) ==
  IF req.acceptsHtml
  THEN IF ReadFileSync(f).kind = "throw" THEN ReadFileSync(f)
       ELSE Handled(<<Send(Marked(ReadFileSync(f).value))>>)
  ELSE Handled(<<>>)

\* Server.ts, createRouter: router.get('/*.md', (req, res, next) => ...)
RouterGetMd(req, f) ==
  IF req.acceptsHtml
  THEN IF ~f.exists THEN Handled(<<NextHandler>>)
       ELSE IF ReadFileSync(f).kind = "throw" THEN ReadFileSync(f)
       ELSE Handled(<<Send(Marked(ReadFileSync(f).value)), NextHandler>>)
  ELSE Handled(<<NextHandler>>)

\* the markdown files that are requested
MarkdownFiles ==
  {JsFile(Name_r_md, Flatten(ps)) : ps \in UNION {[1..n -> Pieces] : n \in 0..1}}
  \cup {[path |-> PathJoin(Dir, Name_r_md), exists |-> TRUE, isDir |-> TRUE, code |-> Null],
        [path |-> PathJoin(Dir, Name_r_md), exists |-> FALSE, isDir |-> FALSE, code |-> Null]}

(***************************************************************************)
(* The route specification: one request handled by the route that its      *)
(* path selects.                                                           *)
(***************************************************************************)
InitRoute ==
  /\ pc = "start"
  /\ IdleRest
  /\ op = "none"
  /\ IdleScan
  /\ IdleFree
  /\ project = NoProject
  /\ ports = <<>>
  /\ server = NoServer
  /\ request \in Requests
  /\ file \in RouteFiles \cup MarkdownFiles
  /\ ret = NoResult

HandleGetMd ==
  /\ pc = "start"
  /\ EndsWith(file.path, Str_md)
  /\ pc' = "done"
  /\ op' = "server.ts GET /*.md"
  /\ ret' = GetMdRoute(request, file)
  /\ UNCHANGED <<file, listing, program, project, ports, server, request, mounts, instance,
                 disk, check>>

HandleRouterGetMd ==
  /\ pc = "start"
  /\ EndsWith(file.path, Str_md)
  /\ pc' = "done"
  /\ op' = "Server.ts GET /*.md"
  /\ ret' = RouterGetMd(request, file)
  /\ UNCHANGED <<file, listing, program, project, ports, server, request, mounts, instance,
                 disk, check>>

HandleGetJs ==
  /\ pc = "start"
  /\ EndsWith(file.path, Str_js)
  /\ pc' = "done"
  /\ op' = "GET /*.js"
  /\ ret' = GetJsRoute(request, file)
  /\ UNCHANGED <<file, listing, program, project, ports, server, request, mounts, instance, disk, check>>

NextRoute == HandleGetJs \/ HandleGetMd \/ HandleRouterGetMd

SpecRoute == InitRoute /\ [][NextRoute]_vars

\* the route parses the requested script: it did not answer with the sketch
\* page and isSketchJs did not throw
ReachesParse ==
  (request.acceptsHtml /\ ~request.fmtView) => IsSketchJs(file) = Return(FALSE)

DefaultPort == 3000

\* the number of ports the loop tries: p < port + 10
ScanRange == 10

\* the port the system chooses for a listen without a port
SystemPort == 49152

ScannedPorts == DefaultPort..(DefaultPort + ScanRange - 1)

ListenError(code) == [name |-> "Error", code |-> code]

\* listenSync(app, p), and listenSync(app) where p is 0: resolves with a
\* server listening on the port, or rejects with the error of the listen
ListenSync(env, p) ==
  IF env[p] = "ok" THEN Return(IF p = 0 THEN SystemPort ELSE p)
  ELSE Throw(ListenError(env[p]))

\* the condition of the catch rethrowing only where ports are not scanned
Rethrown_UnlessScanning(e, scanPorts) == ~scanPorts

\* e.code !== 'EADDRINUSE' || !config.scanPorts
Rethrown(e, scanPorts) == e.code # "EADDRINUSE" \/ ~scanPorts

\* the loop's update taking every other port
NextPort_Skipping(p) == p + 2

\* p++
NextPort(p) == p + 1

\* one pass of the loop body, r the outcome of listenSync(app, p)
AfterListen(srv, r) ==
  LET tried == [srv EXCEPT !.tried = Append(@, srv.p)]
  IN IF r.kind = "return"
     THEN [pc |-> "done", server |-> [tried EXCEPT !.listening = r.value], ret |-> NoResult]
     ELSE IF Rethrown(r.error, srv.scanPorts)
     THEN [pc |-> "thrown", server |-> tried, ret |-> r]
     ELSE [pc |-> "loop", server |-> [tried EXCEPT !.p = NextPort(srv.p)], ret |-> NoResult]

\* if (!server) { server = await listenSync(app) }, r its outcome
AfterListenAnywhere(srv, r) ==
  IF r.kind = "return"
  THEN [pc |-> "done", server |-> [srv EXCEPT !.listening = r.value], ret |-> NoResult]
  ELSE [pc |-> "thrown", server |-> srv, ret |-> r]

\* what listening does on each port: any of the scanned ports may be in use,
\* and one port, or the listen without a port, may be denied
Environments ==
  {[q \in ScannedPorts \cup {0} |->
      IF q = denied THEN "EACCES" ELSE IF q = 0 THEN "ok" ELSE base[q]] :
     base \in [ScannedPorts -> {"ok", "EADDRINUSE"}],
     denied \in ScannedPorts \cup {0, -1}}

(***************************************************************************)
(* The server specification: one call of startServer, from the port scan   *)
(* to the listening server.                                                *)
(***************************************************************************)
InitServer ==
  /\ pc = "start"
  /\ IdleRest
  /\ op = "none"
  /\ file = NoFile
  /\ IdleScan
  /\ IdleFree
  /\ project = NoProject
  /\ request = NoRequest
  /\ ports \in Environments
  /\ \E scanPorts \in BOOLEAN :
       server = [port |-> DefaultPort, scanPorts |-> scanPorts, p |-> DefaultPort,
                 tried |-> <<>>, listening |-> 0]
  /\ ret = NoResult

\* for (let p = port; p < port + 10; p++) { try { server = await listenSync(app, p); break } ... }
TryPort ==
  /\ pc \in {"start", "loop"}
  /\ server.p < server.port + ScanRange
  /\ LET after == AfterListen(server, ListenSync(ports, server.p))
     IN /\ pc' = after.pc
        /\ server' = after.server
        /\ ret' = after.ret
  /\ op' = "startServer"
  /\ UNCHANGED <<file, listing, program, project, ports, request, mounts, instance, disk, check>>

\* if (!server) { server = await listenSync(app) }
ListenAnywhere ==
  /\ pc \in {"start", "loop"}
  /\ ~(server.p < server.port + ScanRange)
  /\ LET after == AfterListenAnywhere(server, ListenSync(ports, 0))
     IN /\ pc' = after.pc
        /\ server' = after.server
        /\ ret' = after.ret
  /\ op' = "startServer"
  /\ UNCHANGED <<file, listing, program, project, ports, request, mounts, instance, disk, check>>

NextServer == TryPort \/ ListenAnywhere

SpecServer == InitServer /\ [][NextServer]_vars

\* the ports of the scanned range on which a listen fails because the port is in use
InUse == {q \in ScannedPorts : ports[q] = "EADDRINUSE"}

\* C18: with scanPorts, startServer tries port, port+1, ..., port+9 in
\* ascending order and nothing after a success: the port it listens on is the
\* last one tried and the lowest of the range that is not in use, and it
\* listens on a system-chosen port only when all ten are in use.
C18_LowestFreePort ==
  (op = "startServer" /\ server.scanPorts) =>
    /\ Len(server.tried) <= ScanRange
    /\ \A i \in 1..Len(server.tried) : server.tried[i] = server.port + i - 1
    /\ server.listening \in ScannedPorts =>
         /\ server.listening = server.tried[Len(server.tried)]
         /\ server.listening \notin InUse
         /\ \A q \in ScannedPorts : q < server.listening => q \in InUse
    /\ server.listening \notin ScannedPorts \cup {0} =>
         /\ server.listening = SystemPort
         /\ InUse = ScannedPorts
    /\ pc = "done" => server.listening # 0
    /\ pc = "thrown" => server.listening = 0 /\ ret.error.code # "EADDRINUSE"

\* three ports were in use, the server listens on the fourth, and the fifth
\* is free as well
C18_Witness_FourthPort ==
  /\ pc = "done" /\ server.scanPorts
  /\ server.tried = <<DefaultPort, DefaultPort + 1, DefaultPort + 2, DefaultPort + 3>>
  /\ server.listening = DefaultPort + 3
  /\ ports[DefaultPort + 4] = "ok"

\* C19: without scanPorts, a configured port in use makes startServer fail
\* with the address-in-use error and the server listens on no other port; a
\* listen error other than address-in-use is propagated without a further
\* port being tried, whatever scanPorts is.
C19_ErrorsPropagate ==
  op = "startServer" =>
    /\ (~server.scanPorts /\ server.port \in InUse) =>
         /\ pc = "thrown"
         /\ ret = Throw(ListenError("EADDRINUSE"))
         /\ server.tried = <<server.port>>
         /\ server.listening = 0
    /\ \A i \in 1..Len(server.tried) :
         ports[server.tried[i]] \notin {"ok", "EADDRINUSE"} =>
           /\ i = Len(server.tried)
           /\ pc = "thrown"
           /\ ret = Throw(ListenError(ports[server.tried[i]]))
           /\ server.listening = 0

\* startServer failed on the configured port although the next port is free
C19_Witness_InUseWithoutScan ==
  /\ pc = "thrown" /\ ~server.scanPorts
  /\ ret = Throw(ListenError("EADDRINUSE"))
  /\ ports[server.port + 1] = "ok"

(***************************************************************************)
(* A further claim about findFreeVariables.                                *)
(***************************************************************************)
\* the statement kinds named as outside the coverage of findFreeVariables
UncoveredStatements ==
  {"SwitchStatement", "TryStatement", "ThrowStatement", "WithStatement", "ForOfStatement"}

\* the function without the statements of its body that are outside the coverage
WithoutUncovered(node) ==
  IF node.type = "FunctionDeclaration"
  THEN [node EXCEPT !.body.body =
          SelectSeq(@, LAMBDA stmt : stmt.type \notin UncoveredStatements)]
  ELSE node

\* C20: findFreeVariables returns a set for every program; a statement of a
\* kind outside its coverage contributes no names and the walk continues
\* with the statements after it, so the result is that of the program
\* without those statements.
C20_AlwaysReturnsASet ==
  (pc = "done" /\ op = "findFreeVariables") =>
    /\ ret.kind = "return"
    /\ ret = FindFreeVariables(
               [program EXCEPT !.body =
                  [i \in 1..Len(program.body) |-> WithoutUncovered(program.body[i])]])

(***************************************************************************)
(* A further claim about findP5MemberReferences.                           *)
(***************************************************************************)
\* the expressions of a statement, those of the statements inside it included
RECURSIVE StatementExpressions(_)
StatementExpressions(stmt) ==
  CASE stmt.type = "ExpressionStatement" -> SubExpressions(stmt.expression)
    [] stmt.type = "ReturnStatement" ->
         IF stmt.argument # NullNode THEN SubExpressions(stmt.argument) ELSE {}
    [] stmt.type = "VariableDeclaration" ->
         UNION {IF stmt.declarations[i].init # NullNode
                THEN SubExpressions(stmt.declarations[i].init) ELSE {} :
                i \in 1..Len(stmt.declarations)}
    [] stmt.type = "FunctionDeclaration" ->
         UNION {StatementExpressions(stmt.body.body[i]) : i \in 1..Len(stmt.body.body)}
    [] stmt.type = "IfStatement" -> SubExpressions(stmt.test)
    [] OTHER -> {}

\* the names n of the dot-syntax accesses p5.n of the program
DotAccessesOffP5 ==
  UNION {ImmediateP5Properties(e) :
           e \in UNION {StatementExpressions(program.body[i]) : i \in 1..Len(program.body)}}

\* C21: every name in the result of findP5MemberReferences is the property
\* name of a dot-syntax access p5.name somewhere in the program; a bracket
\* access p5[x] and an access off another identifier contribute no name.
C21_OnlyDotAccessesOffP5 ==
  (pc = "done" /\ op = "findP5MemberReferences" /\ ret.kind = "return")
    => ret.value \subseteq DotAccessesOffP5

(***************************************************************************)
(* The mount points of a Server: the constructor, normalizeMountPoints     *)
(* with its local functions findUniqueName and generateNames, and the      *)
(* two mappings between file paths and URL paths.  Paths are POSIX paths   *)
(* (path.sep is "/"), so the replaceAll of the Windows normalisation       *)
(* leaves a file path as it is.                                            *)
(***************************************************************************)
\* the number of mount points given to the constructor
MaxMounts == 3

\* the number of names one generateNames call is followed for
MaxCandidates == 5

\* the value of parseInt for a text that does not start with a digit; it is
\* no number a text of digits stands for
NaN == -1

Str_NaN == <<"N", "a", "N">>
Str_dot == <<".">>
Str_slash == <<"/">>
Str_baseUrl ==
  <<"h","t","t","p",":","/","/","l","o","c","a","l","h","o","s","t",":","3","0","0","0">>

DigitChars == <<"0", "1", "2", "3", "4", "5", "6", "7", "8", "9">>

IsDigit(c) == \E d \in 1..Len(DigitChars) : DigitChars[d] = c

DigitValue(c) == (CHOOSE d \in 1..Len(DigitChars) : DigitChars[d] = c) - 1

\* String.prototype.startsWith
StartsWith(s, prefix) == HasAt(s, 1, prefix)

\* s.replace(prefix, by) for a text s that starts with prefix
ReplacePrefix(s, prefix, by) == by \o SubSeq(s, Len(prefix) + 1, Len(s))

\* s.replace(/\/$/, '')
StripFinalSlash(s) ==
  IF s # <<>> /\ s[Len(s)] = "/" THEN SubSeq(s, 1, Len(s) - 1) ELSE s

\* parseInt(digits, 10) for a text of decimal digits
RECURSIVE ParseInt(_)
ParseInt(digits) ==
  IF digits = <<>> THEN NaN
  ELSE IF Len(digits) = 1 THEN DigitValue(digits[1])
  ELSE ParseInt(SubSeq(digits, 1, Len(digits) - 1)) * 10 + DigitValue(digits[Len(digits)])

\* n + 1 and n++ for a number that may be NaN
PlusOne(n) == IF n = NaN THEN NaN ELSE n + 1

\* the text of a number inside a template literal
RECURSIVE NumberText(_)
NumberText(n) ==
  IF n = NaN THEN Str_NaN
  ELSE IF n < 10 THEN <<DigitChars[n + 1]>>
  ELSE NumberText(n \div 10) \o <<DigitChars[(n % 10) + 1]>>

\* base.match(/^(.*?)-(\d*)$/): <<m[1], m[2]>>, or <<>> for null.  A digit is
\* not a "-", so the "-" of a match is the last one of the text.
MatchCounter(base) ==
  LET dashes == {k \in 1..Len(base) : base[k] = "-"}
  IN IF dashes = {} THEN <<>>
     ELSE LET k == Maximum(dashes)
          IN IF \A j \in (k + 1)..Len(base) : IsDigit(base[j])
             THEN <<SubSeq(base, 1, k - 1), SubSeq(base, k + 1, Len(base))>>
             ELSE <<>>

\* generateNames: the base and the counter after the first name
CounterBase(base) == IF MatchCounter(base) # <<>> THEN MatchCounter(base)[1] ELSE base

FirstCounter(base) ==
  IF MatchCounter(base) # <<>> THEN PlusOne(ParseInt(MatchCounter(base)[2])) ELSE 2

\* generateNames: `${base}-${ix++}`
CounterName(base, ix) == base \o <<"-">> \o NumberText(ix)

\* the four maps of normalizeMountPoints over one mount point option; an
\* option that is a string is the record with its filePath only
NormalizeMount(option) ==
  LET urlPath == IF option.urlPath # Null THEN option.urlPath
                 ELSE Str_slash \o
                      (IF option.name # Null THEN option.name ELSE Basename(option.filePath))
  IN [filePath |-> StripFinalSlash(option.filePath),
      name |-> option.name,
      urlPath |-> StripFinalSlash(urlPath)]

\* the mount points of a Server without mount point options and without root
DefaultMounts == <<[filePath |-> Str_dot, name |-> Null, urlPath |-> Str_slash]>>

Excluded_AfterNext(list, i) == {list[j].urlPath : j \in (i + 2)..Len(list)}

\* mounts.slice(i + 1).map(mount => mount.urlPath)
Excluded(list, i) == {list[j].urlPath : j \in (i + 1)..Len(list)}

\* the mount point an index of the loop of filePathToUrl and urlPathToFilePath
\* stops at, or 0
FilePrefix(mountPoint) == mountPoint.filePath \o Str_slash

PathPrefix(mountPoint) ==
  IF mountPoint.urlPath \o Str_slash = <<"/", "/">> THEN Str_slash
  ELSE mountPoint.urlPath \o Str_slash

\* Server.filePathToUrl
FilePathToUrl(mountPoints, filePath) ==
  LET found == {i \in 1..Len(mountPoints) : StartsWith(filePath, FilePrefix(mountPoints[i]))}
  IN IF found = {} THEN Null
     ELSE LET mountPoint == mountPoints[CHOOSE i \in found : \A j \in found : i <= j]
          IN Str_baseUrl \o ReplacePrefix(filePath, FilePrefix(mountPoint), PathPrefix(mountPoint))

\* Server.urlPathToFilePath
UrlPathToFilePath(mountPoints, urlPath) ==
  LET found == {i \in 1..Len(mountPoints) : StartsWith(urlPath, PathPrefix(mountPoints[i]))}
  IN IF found = {} THEN Null
     ELSE LET mountPoint == mountPoints[CHOOSE i \in found : \A j \in found : i <= j]
          IN ReplacePrefix(urlPath, PathPrefix(mountPoint), FilePrefix(mountPoint))

\* new URL(url).pathname for a URL of this server
Pathname(url) == SubSeq(url, Len(Str_baseUrl) + 1, Len(url))

\* the file paths, names and URL paths of the mount point options
MountFilePaths == {<<"/">>, <<"/", "a">>, <<"/", "b", "/", "a">>, <<"/", "a", "-">>, <<"/", "a", "-", "2">>}

MountNames == {Null, <<"a">>}

MountUrlPaths == {Null, <<"/", "a", "/">>}

MountOptions == [filePath : MountFilePaths, name : MountNames, urlPath : MountUrlPaths]

MountOptionLists == UNION {[1..n -> MountOptions] : n \in 0..MaxMounts}

\* file paths below the directory of a mount point
FilesUnder(list) ==
  {list[i].filePath \o Str_slash \o rest :
     i \in 1..Len(list), rest \in {<<"f">>, <<"a", "/", "f">>}}

InitMounts ==
  /\ pc = "start"
  /\ op = "new Server"
  /\ file = NoFile
  /\ listing = <<>>
  /\ program = NoProgram
  /\ ret = NoResult
  /\ project = NoProject /\ ports = <<>> /\ server = NoServer /\ request = NoRequest
  /\ instance = NoInstance /\ disk = NoDisk /\ check = NoCheck
  /\ \E options \in MountOptionLists : mounts = [NoMounts EXCEPT !.list = options]

\* Server.constructor up to the loop of normalizeMountPoints
Construct ==
  /\ pc = "start" /\ op = "new Server"
  /\ IF Len(mounts.list) > 0
     THEN /\ mounts' = [mounts EXCEPT
                          !.list = [k \in 1..Len(mounts.list) |-> NormalizeMount(mounts.list[k])],
                          !.i = Len(mounts.list) + 1]
          /\ pc' = "loop"
     ELSE /\ mounts' = [mounts EXCEPT !.list = DefaultMounts]
          /\ pc' = "done"
  /\ UNCHANGED <<op, file, listing, program, ret, project, ports, server, request, instance,
                 disk, check>>

\* normalizeMountPoints: --i >= 0, and the call of findUniqueName
NextMount ==
  /\ pc = "loop"
  /\ IF mounts.i - 1 >= 1
     THEN /\ mounts' = [mounts EXCEPT !.i = mounts.i - 1,
                                      !.base = mounts.list[mounts.i - 1].urlPath,
                                      !.ix = 0,
                                      !.yielded = <<>>]
          /\ pc' = "search"
     ELSE /\ mounts' = [mounts EXCEPT !.i = 0]
          /\ pc' = "done"
  /\ UNCHANGED <<op, file, listing, program, ret, project, ports, server, request, instance,
                 disk, check>>

\* findUniqueName: one pass of its loop over generateNames(base)
TryName_With(name, base, ix) ==
  IF name \notin Excluded(mounts.list, mounts.i)
  THEN /\ mounts' = [mounts EXCEPT !.list[mounts.i].urlPath = name,
                                   !.base = base, !.ix = ix,
                                   !.yielded = Append(mounts.yielded, name)]
       /\ pc' = "loop"
  ELSE /\ mounts' = [mounts EXCEPT !.base = base, !.ix = ix,
                                   !.yielded = Append(mounts.yielded, name)]
       /\ pc' = "search"

TryName ==
  /\ pc = "search"
  /\ Len(mounts.yielded) < MaxCandidates
  /\ IF mounts.yielded = <<>>
     THEN TryName_With(mounts.base, CounterBase(mounts.base), FirstCounter(mounts.base))
     ELSE TryName_With(CounterName(mounts.base, mounts.ix), mounts.base, PlusOne(mounts.ix))
  /\ UNCHANGED <<op, file, listing, program, ret, project, ports, server, request, instance,
                 disk, check>>

\* Server.filePathToUrl on a file below one of the mount points
CallFilePathToUrl ==
  /\ pc = "done" /\ op = "new Server"
  /\ \E filePath \in FilesUnder(mounts.list) :
       /\ mounts' = [mounts EXCEPT !.filePath = filePath]
       /\ ret' = Return(FilePathToUrl(mounts.list, filePath))
  /\ op' = "filePathToUrl"
  /\ UNCHANGED <<pc, file, listing, program, project, ports, server, request, instance,
                 disk, check>>

\* consoleRelayRouter's urlToFilePath: Server.urlPathToFilePath on the path of the URL
CallUrlPathToFilePath ==
  /\ pc = "done" /\ op = "filePathToUrl"
  /\ ret' = Return(UrlPathToFilePath(mounts.list, Pathname(ret.value)))
  /\ op' = "urlPathToFilePath"
  /\ UNCHANGED <<pc, file, listing, program, project, ports, server, request, mounts,
                 instance, disk, check>>

NextMounts ==
  Construct \/ NextMount \/ TryName \/ CallFilePathToUrl \/ CallUrlPathToFilePath

SpecMounts == InitMounts /\ [][NextMounts]_vars

Constructed == pc = "done" /\ op = "new Server"

\* C22: after a Server is constructed, the urlPath values of its mount
\* points are pairwise distinct, whatever names and directories the options give.
C22_DistinctUrlPaths ==
  Constructed =>
    \A i, j \in 1..Len(mounts.list) :
      i # j => mounts.list[i].urlPath # mounts.list[j].urlPath

\* three mount points of the same directory basename, constructed
C22_Witness_SameBasename ==
  /\ Constructed
  /\ Len(mounts.list) = 3
  /\ \A i \in 1..3 : Basename(mounts.list[i].filePath) = <<"a">> /\ mounts.list[i].name = Null
  /\ mounts.list[1].urlPath = <<"/", "a", "-", "3">>

\* C27: the search for an unused URL path of a mount point ends after
\* finitely many candidates: the names generateNames yields are new each
\* time, so at most one more than the number of later mount points are tried.
C27_SearchEnds ==
  pc = "search" => Len(mounts.yielded) <= Len(mounts.list) - mounts.i

\* C26: for a file path below a mount point, urlPathToFilePath of the URL path
\* that filePathToUrl produced returns the file path again.
C26_RoundTrip ==
  (pc = "done" /\ op = "urlPathToFilePath") => ret.value = mounts.filePath

(***************************************************************************)
(* What a route handler did with a request.                                *)
(***************************************************************************)
\* the number of responses the handler sent
Sends(r) ==
  IF r.kind = "send" THEN 1
  ELSE IF r.kind = "handled"
       THEN Cardinality({k \in 1..Len(r.calls) : r.calls[k].kind = "send"})
       ELSE 0

\* the number of times the handler called next
Passes(r) ==
  IF r.kind = "next" THEN 1
  ELSE IF r.kind = "handled"
       THEN Cardinality({k \in 1..Len(r.calls) : r.calls[k].kind = "next"})
       ELSE 0

RouteOps == {"GET /*.js", "server.ts GET /*.md", "Server.ts GET /*.md"}

\* C23: a request that reaches a route handler, and whose handler returns,
\* ends in exactly one of two outcomes: the handler sent a response or it
\* passed the request to the next handler, never both and never neither.
C23_SendOrNext ==
  (pc = "done" /\ op \in RouteOps /\ ret.kind # "throw") =>
    Sends(ret) + Passes(ret) = 1

(***************************************************************************)
(* One Server instance and its start() and stop() calls.  A call runs up   *)
(* to its await, other calls may run while it waits, and it goes on when   *)
(* what it awaits settles.  listenSync and closeSync stand for the port    *)
(* loop of startServer and for the close of an http server; the http       *)
(* server that the n-th call creates is server n.                          *)
(***************************************************************************)
\* the number of start() and stop() calls on the instance
MaxCalls == 3

ServerCall(kind, at, srv) == [kind |-> kind, pc |-> at, srv |-> srv]

\* what server.address() returns and what createLiveReloadServer does
Addresses == {"AddressInfo", "string", "null"}

LiveReloads == {"returns", "throws"}

\* startServer from server.address() on, for the http server id that
\* listens: what becomes of the call and which servers listen
StartServerTail(listening, id, address, liveReload) ==
  IF address # "AddressInfo"
  THEN [call |-> ServerCall("start", "thrown", id), listening |-> listening \cup {id}]
  ELSE IF liveReload = "throws"
  THEN [call |-> ServerCall("start", "thrown", id), listening |-> listening]
  ELSE [call |-> ServerCall("start", "return", id), listening |-> listening \cup {id}]

InitInstance ==
  /\ pc = "start"
  /\ op = "Server instance"
  /\ file = NoFile
  /\ listing = <<>>
  /\ program = NoProgram
  /\ ret = NoResult
  /\ project = NoProject /\ ports = <<>> /\ server = NoServer /\ request = NoRequest
  /\ mounts = NoMounts /\ disk = NoDisk /\ check = NoCheck
  /\ instance = NoInstance

\* start() is called: startServer runs up to its await of listenSync
BeginStart ==
  /\ op = "Server instance"
  /\ Len(instance.calls) < MaxCalls
  /\ instance' = [instance EXCEPT !.calls = Append(@, ServerCall("start", "listen", 0)),
                                  !.stopped = FALSE]
  /\ UNCHANGED <<pc, op, file, listing, program, ret, project, ports, server, request,
                 mounts, disk, check>>

\* the listening of startServer fails: the error leaves startServer and start()
ListenRejects ==
  /\ op = "Server instance"
  /\ \E c \in 1..Len(instance.calls) :
       /\ instance.calls[c] = ServerCall("start", "listen", 0)
       /\ instance' = [instance EXCEPT !.calls[c] = ServerCall("start", "thrown", 0)]
  /\ UNCHANGED <<pc, op, file, listing, program, ret, project, ports, server, request,
                 mounts, disk, check>>

\* an http server listens: startServer runs to its end
ListenResolves ==
  /\ op = "Server instance"
  /\ \E c \in 1..Len(instance.calls), address \in Addresses, liveReload \in LiveReloads :
       /\ instance.calls[c] = ServerCall("start", "listen", 0)
       /\ LET tail == StartServerTail(instance.listening, c, address, liveReload)
          IN instance' = [instance EXCEPT !.calls[c] = tail.call,
                                          !.listening = tail.listening]
  /\ UNCHANGED <<pc, op, file, listing, program, ret, project, ports, server, request,
                 mounts, disk, check>>

\* start() after its await: this.server = server; this.url = url
StartAssigns ==
  /\ op = "Server instance"
  /\ \E c \in 1..Len(instance.calls) :
       /\ instance.calls[c].kind = "start" /\ instance.calls[c].pc = "return"
       /\ instance' = [instance EXCEPT !.calls[c].pc = "done",
                                       !.server = instance.calls[c].srv,
                                       !.url = Str_baseUrl]
  /\ UNCHANGED <<pc, op, file, listing, program, ret, project, ports, server, request,
                 mounts, disk, check>>

\* stop() is called: with a server it awaits closeSync(this.server), without
\* one it runs to its end
BeginStop ==
  /\ op = "Server instance"
  /\ Len(instance.calls) < MaxCalls
  /\ IF instance.server # 0
     THEN instance' = [instance EXCEPT
                         !.calls = Append(@, ServerCall("stop", "close", instance.server))]
     ELSE instance' = [instance EXCEPT !.calls = Append(@, ServerCall("stop", "done", 0)),
                                       !.server = 0,
                                       !.url = Null,
                                       !.stopped = TRUE]
  /\ UNCHANGED <<pc, op, file, listing, program, ret, project, ports, server, request,
                 mounts, disk, check>>

\* closeSync resolves, the server is closed: stop() runs to its end
CloseResolves ==
  /\ op = "Server instance"
  /\ \E c \in 1..Len(instance.calls) :
       /\ instance.calls[c].kind = "stop" /\ instance.calls[c].pc = "close"
       /\ instance' = [instance EXCEPT !.calls[c].pc = "done",
                                       !.listening = @ \ {instance.calls[c].srv},
                                       !.server = 0,
                                       !.url = Null,
                                       !.stopped = TRUE]
  /\ UNCHANGED <<pc, op, file, listing, program, ret, project, ports, server, request,
                 mounts, disk, check>>

NextInstance ==
  BeginStart \/ ListenRejects \/ ListenResolves \/ StartAssigns \/ BeginStop \/ CloseResolves

SpecInstance == InitInstance /\ [][NextInstance]_vars

\* C24: once a stop() has completed and no later start() has begun, no http
\* server that the instance started is listening, and the server and url
\* fields of the instance are cleared.
C24_StoppedMeansClosed ==
  instance.stopped =>
    instance.listening = {} /\ instance.server = 0 /\ instance.url = Null

\* C25: a start whose startServer failed after its http server began to
\* listen has closed that server: it is not listening afterwards.
C25_FailedStartClosesServer ==
  \A c \in 1..Len(instance.calls) :
    (instance.calls[c].kind = "start" /\ instance.calls[c].pc = "thrown"
       /\ instance.calls[c].srv # 0)
      => instance.calls[c].srv \notin instance.listening

(***************************************************************************)
(* Project.generate: the directory of the project on the disk, the         *)
(* argument force, and the files that are written.                         *)
(***************************************************************************)
Name_my_dir == <<"m", "y", "_", "d">>

\* new DirectoryExistsError(msg)
DirectoryExistsError(msg) == [name |-> "DirectoryExistsError", message |-> msg]

\* fs.mkdirSync(name): the code of the error it throws, or "none"; a path
\* whose parent directory is missing is "unreachable"
MkdirError(d) ==
  IF d.kind = "absent" THEN "none"
  ELSE IF d.kind = "unreachable" THEN "ENOENT"
  ELSE "EEXIST"

\* !fs.statSync(name).isDirectory()
NotADirectory(d) == d.kind # "directory"

NotEmptyRefused_Never(d) == FALSE

\* fs.readdirSync(name).length && !force
NotEmptyRefused(d) == d.entries # {} /\ ~d.force

\* dirPath.replace(/_/g, ' ')
SpacesForUnderscores(s) == [k \in 1..Len(s) |-> IF s[k] = "_" THEN " " ELSE s[k]]

\* Project.getGeneratedFileContent
GeneratedFileContent(q, base) ==
  [template |-> base,
   title |-> IF q.title # Null THEN q.title ELSE SpacesForUnderscores(q.dirPath),
   sketchPath |-> <<".", "/">> \o q.sketchPath]

\* Project.writeGeneratedFile
WriteGeneratedFile(d, q, base) ==
  [d EXCEPT !.entries = @ \cup {base},
            !.written = @ \cup {[path |-> PathJoin(q.dirPath, base),
                                 content |-> GeneratedFileContent(q, base)]}]

\* what may be at the path before generate, and the argument force
Disks ==
  {[NoDisk EXCEPT !.kind = k, !.was = k, !.force = f] :
     k \in {"absent", "file", "unreachable"}, f \in BOOLEAN}
  \cup {[NoDisk EXCEPT !.kind = "directory", !.was = "directory", !.entries = e,
                       !.had = e, !.force = f] :
          e \in SUBSET {Name_index_html, Name_sketch_js, Name_r_txt}, f \in BOOLEAN}

GeneratedProjects ==
  {[Project(d, Name_index_html, Name_sketch_js) EXCEPT !.title = t] :
     d \in {Dir, Name_my_dir}, t \in {Null, Str_T}}

InitGenerate ==
  /\ pc = "start"
  /\ op = "generate"
  /\ file = NoFile
  /\ listing = <<>>
  /\ program = NoProgram
  /\ ret = NoResult
  /\ ports = <<>> /\ server = NoServer /\ request = NoRequest
  /\ mounts = NoMounts /\ instance = NoInstance /\ check = NoCheck
  /\ project \in GeneratedProjects
  /\ disk \in Disks

\* try { fs.mkdirSync(name) } and the first test of the catch
Mkdir ==
  /\ pc = "start" /\ op = "generate"
  /\ IF MkdirError(disk) = "none"
     THEN /\ disk' = [disk EXCEPT !.kind = "directory"]
          /\ pc' = "write index.html"
          /\ ret' = ret
     ELSE IF MkdirError(disk) # "EEXIST"
     THEN /\ ret' = Throw(SystemError(MkdirError(disk)))
          /\ pc' = "thrown"
          /\ disk' = disk
     ELSE /\ pc' = "exists"
          /\ UNCHANGED <<ret, disk>>
  /\ UNCHANGED <<op, file, listing, program, project, ports, server, request, mounts,
                 instance, check>>

\* the rest of the catch: the path exists
CheckExisting ==
  /\ pc = "exists" /\ op = "generate"
  /\ IF NotADirectory(disk)
     THEN /\ ret' = Throw(DirectoryExistsError("already exists and is not a directory"))
          /\ pc' = "thrown"
     ELSE IF NotEmptyRefused(disk)
     THEN /\ ret' = Throw(DirectoryExistsError("already exists and is not empty"))
          /\ pc' = "thrown"
     ELSE /\ pc' = "write index.html"
          /\ ret' = ret
  /\ UNCHANGED <<op, file, listing, program, project, ports, server, request, mounts,
                 instance, disk, check>>

\* this.writeGeneratedFile('index.html')
WriteIndex ==
  /\ pc = "write index.html" /\ op = "generate"
  /\ disk' = WriteGeneratedFile(disk, project, Name_index_html)
  /\ pc' = "write sketch.js"
  /\ UNCHANGED <<op, file, listing, program, ret, project, ports, server, request, mounts,
                 instance, check>>

\* this.writeGeneratedFile('sketch.js'), and the return
WriteSketch ==
  /\ pc = "write sketch.js" /\ op = "generate"
  /\ disk' = WriteGeneratedFile(disk, project, Name_sketch_js)
  /\ pc' = "done"
  /\ ret' = Return(Null)
  /\ UNCHANGED <<op, file, listing, program, project, ports, server, request, mounts,
                 instance, check>>

NextGenerate == Mkdir \/ CheckExisting \/ WriteIndex \/ WriteSketch

SpecGenerate == InitGenerate /\ [][NextGenerate]_vars

\* generate may write: it created the directory, the directory was there
\* and empty, or force is true and the path is a directory
MayWrite ==
  \/ disk.was = "absent"
  \/ disk.was = "directory" /\ (disk.had = {} \/ disk.force)

\* generate must refuse: the path is there and no directory, or it is a
\* directory that is not empty and force is false
MustRefuse ==
  \/ disk.was = "file"
  \/ disk.was = "directory" /\ disk.had # {} /\ ~disk.force

\* C28: Project.generate writes its files only where it may write; where
\* it must refuse it writes no file, overwrites none, and ends by raising
\* DirectoryExistsError.
C28_WritesOnlyWhenAllowed ==
  op = "generate" =>
    /\ disk.written # {} => MayWrite
    /\ MustRefuse =>
         /\ disk.written = {} /\ disk.entries = disk.had /\ pc # "done"
         /\ pc = "thrown" => (ret.kind = "throw" /\ ret.error.name = "DirectoryExistsError")

\* a directory that is not empty was refused without force
C28_Witness_NotEmptyRefused ==
  /\ op = "generate" /\ pc = "thrown"
  /\ disk.was = "directory" /\ disk.had = {Name_index_html} /\ ~disk.force
  /\ ret = Throw(DirectoryExistsError("already exists and is not empty"))

(***************************************************************************)
(* checkLibraries: the libraries with what a fetch of their homepage, of   *)
(* their import path and of its minimized alternative answers, the three   *)
(* phases with their fetches in flight, and process.exitCode.  The fetches *)
(* of one phase settle in any order; all of them resolve.                  *)
(***************************************************************************)
\* the number of libraries in Library.all
MaxLibraries == 2

Name_a_js == <<"a", ".", "j", "s">>
Name_a_min_js == <<"a", ".", "m", "i", "n", ".", "j", "s">>

\* a library and the answers to its fetches: the status of the homepage,
\* res.ok of the import path, whether its script has errors, res.ok of the
\* minimized alternative
Libraries ==
  [homepage : {200, 404}, importPath : {Null, Name_a_js, Name_a_min_js},
   importOk : BOOLEAN, scriptErrors : BOOLEAN, minimizedOk : BOOLEAN]

LibraryLists == UNION {[1..n -> Libraries] : n \in 1..MaxLibraries}

Phases == <<"homepages", "import paths", "minimized">>

Indices(libs) == 1..Len(libs)

HomepageInvalid_Never(lib) == FALSE

\* homepage.status !== 200
HomepageInvalid(lib) == lib.homepage # 200

\* !library.importPath
ImportPathMissing(lib) == lib.importPath = Null

\* the libraries whose import path is fetched
WithImportPath(libs) == {i \in Indices(libs) : ~ImportPathMissing(libs[i])}

\* !res.ok
ImportPathInvalid(lib) == ~lib.importOk

\* script.getErrors().length > 0 for the script of a response that is ok
HasScriptErrors(lib) == lib.importOk /\ lib.scriptErrors

\* the candidates of findMinimizedImportPathAlternatives
MinimizedCandidates(libs) ==
  {i \in Indices(libs) :
     /\ libs[i].importPath # Null
     /\ EndsWith(libs[i].importPath, Str_js)
     /\ ~EndsWith(libs[i].importPath, Str_min_js)}

\* process.exitCode after if (problems.length) { ... process.exitCode = 1 }
ExitCodeAfter(exitCode, problems) == IF problems # {} THEN 1 ELSE exitCode

\* a phase begins: its fetches are in flight
Begin(c, phase, fetches) ==
  [c EXCEPT !.started = Append(@, phase), !.pending = fetches]

\* a fetch of the phase settles
Settle(c, phase, i) ==
  [c EXCEPT !.pending = @ \ {i}, !.fetched = @ \cup {<<phase, i>>}]

InitCheck ==
  /\ pc = "start"
  /\ op = "checkLibraries"
  /\ file = NoFile
  /\ listing = <<>>
  /\ program = NoProgram
  /\ ret = NoResult
  /\ project = NoProject /\ ports = <<>> /\ server = NoServer /\ request = NoRequest
  /\ mounts = NoMounts /\ instance = NoInstance /\ disk = NoDisk
  /\ \E libs \in LibraryLists : check = [NoCheck EXCEPT !.libraries = libs]

\* checkLibraryHomepagePaths up to its await
BeginHomepages ==
  /\ pc = "start" /\ op = "checkLibraries"
  /\ check' = Begin(check, "homepages", Indices(check.libraries))
  /\ pc' = "homepages"
  /\ UNCHANGED <<op, file, listing, program, ret, project, ports, server, request, mounts,
                 instance, disk>>

\* one cachedFetch of the phase in progress resolves
FetchResolves ==
  /\ pc \in {"homepages", "import paths", "minimized"} /\ op = "checkLibraries"
  /\ \E i \in check.pending : check' = Settle(check, pc, i)
  /\ UNCHANGED <<pc, op, file, listing, program, ret, project, ports, server, request,
                 mounts, instance, disk>>

\* checkLibraryHomepagePaths after its await
EndHomepages ==
  /\ pc = "homepages" /\ op = "checkLibraries"
  /\ check.pending = {}
  /\ check' = [check EXCEPT
                 !.exitCode =
                   ExitCodeAfter(@, {i \in Indices(check.libraries) :
                                       HomepageInvalid(check.libraries[i])})]
  /\ pc' = "homepages done"
  /\ UNCHANGED <<op, file, listing, program, ret, project, ports, server, request, mounts,
                 instance, disk>>

\* checkLibraryImportPaths up to its await
BeginImportPaths ==
  /\ pc = "homepages done" /\ op = "checkLibraries"
  /\ check' = [Begin(check, "import paths", WithImportPath(check.libraries)) EXCEPT
                 !.exitCode =
                   ExitCodeAfter(@, {i \in Indices(check.libraries) :
                                       ImportPathMissing(check.libraries[i])})]
  /\ pc' = "import paths"
  /\ UNCHANGED <<op, file, listing, program, ret, project, ports, server, request, mounts,
                 instance, disk>>

\* checkLibraryImportPaths after its await
EndImportPaths ==
  /\ pc = "import paths" /\ op = "checkLibraries"
  /\ check.pending = {}
  /\ LET libs == check.libraries
         invalid == {i \in WithImportPath(libs) : ImportPathInvalid(libs[i])}
         errors == {i \in WithImportPath(libs) : HasScriptErrors(libs[i])}
     IN check' = [check EXCEPT
                    !.exitCode = ExitCodeAfter(ExitCodeAfter(@, invalid), errors)]
  /\ pc' = "import paths done"
  /\ UNCHANGED <<op, file, listing, program, ret, project, ports, server, request, mounts,
                 instance, disk>>

\* findMinimizedImportPathAlternatives up to its await
BeginMinimized ==
  /\ pc = "import paths done" /\ op = "checkLibraries"
  /\ check' = Begin(check, "minimized", MinimizedCandidates(check.libraries))
  /\ pc' = "minimized"
  /\ UNCHANGED <<op, file, listing, program, ret, project, ports, server, request, mounts,
                 instance, disk>>

\* findMinimizedImportPathAlternatives after its await, and the return of
\* checkLibraries with the libraries that have a minimized alternative
EndMinimized ==
  /\ pc = "minimized" /\ op = "checkLibraries"
  /\ check.pending = {}
  /\ ret' = Return({i \in MinimizedCandidates(check.libraries) :
                      check.libraries[i].minimizedOk})
  /\ pc' = "done"
  /\ UNCHANGED <<op, file, listing, program, project, ports, server, request, mounts,
                 instance, disk, check>>

NextCheck ==
  \/ BeginHomepages \/ FetchResolves \/ EndHomepages \/ BeginImportPaths
  \/ EndImportPaths \/ BeginMinimized \/ EndMinimized

SpecCheck == InitCheck /\ [][NextCheck]_vars

\* the phase has begun
Started(phase) == \E k \in 1..Len(check.started) : check.started[k] = phase

\* all fetches of the phase have settled
AllFetched(phase, fetches) == \A i \in fetches : <<phase, i>> \in check.fetched

\* the problems each phase looks for
HomepageProblems == \E i \in Indices(check.libraries) : check.libraries[i].homepage # 200

ImportPathProblems ==
  \E i \in Indices(check.libraries) :
    \/ check.libraries[i].importPath = Null
    \/ check.libraries[i].importPath # Null /\ ~check.libraries[i].importOk
    \/ check.libraries[i].importPath # Null /\ check.libraries[i].importOk
         /\ check.libraries[i].scriptErrors

\* C29: the three phases of checkLibraries run in order, each one begun
\* only when the fetches of the one before have all settled, and whether
\* or not that one found problems; the exit code is 1 from the end of a
\* phase that found a problem on and is never reset, and when checkLibraries
\* completes it is 1 exactly if a homepage did not answer 200, a library
\* has no import path, an import path was not fetched, or a fetched script
\* has parse errors.
C29_PhasesInOrder ==
  op = "checkLibraries" =>
    /\ check.started = SubSeq(Phases, 1, Len(check.started))
    /\ Started("import paths") =>
         AllFetched("homepages", Indices(check.libraries))
    /\ Started("minimized") =>
         AllFetched("import paths", {i \in Indices(check.libraries) :
                                       check.libraries[i].importPath # Null})
    /\ (Started("import paths") /\ HomepageProblems) => check.exitCode = 1
    /\ (Started("minimized") /\ ImportPathProblems) => check.exitCode = 1
    /\ pc = "done" =>
         /\ check.started = Phases
         /\ check.exitCode = 1 <=> (HomepageProblems \/ ImportPathProblems)

\* checkLibraries completed with exit code 1 for a homepage alone: the later
\* phases ran, found nothing, and left the exit code as it was
C29_Witness_HomepageOnly ==
  /\ op = "checkLibraries" /\ pc = "done"
  /\ HomepageProblems /\ ~ImportPathProblems
  /\ check.exitCode = 1
  /\ \E i \in Indices(check.libraries) : <<"minimized", i>> \in check.fetched

====
